---- MODULE Spec2Model ----
(* Verification model of the chunker service (KogSector/chunker).          *)
(*   - jobs/store.rs       : JobStore / JobRecord                          *)
(*   - jobs/processor.rs   : JobProcessor::process_job and the sink fan-out *)
(*   - api/handlers.rs     : start_chunk_job / get_job_status               *)
(*   - batch.rs            : BatchProcessor::process_batch[_streaming]      *)
EXTENDS Integers, Sequences, FiniteSets, TLC

(***************************************************************************)
(* Bounds                                                                  *)
(***************************************************************************)
MaxJobs == 1            \* jobs submitted in one behaviour
MaxTime == 3            \* hours the clock runs for
MaxTokens == 4          \* tokens the encoder returns for one content
MaxChunkSize == 3       \* ChunkConfig.chunk_size / chunk_overlap
MaxContentChars == 3    \* characters in the content of a large item
MaxContentSize == 2     \* BatchConfig.max_content_size, in bytes
MaxNodes == 2           \* top-level nodes of a parsed file
MaxNodeLines == 2       \* lines a top-level node spans
MaxLines == 3           \* lines of a text content
MaxUnitTokens == 2      \* tokens of one line / sentence / comment
MaxRows == 2            \* data rows of a table
MaxSinkChunks == 3      \* chunks handed to one send_chunks call
MaxSegments == 2        \* segments of a content-type string
MaxScopeNodes == 2      \* AST nodes a ScopeTree is built from
MaxPathLen == 2         \* bytes of ChunkContext.file_path
MaxDeps == 6            \* ChunkContext.dependencies
MaxPrefixLength == 24   \* ContextBuilder.max_prefix_length
DepsFlatLimit == 100    \* longest dependency list written out in full
DepsShown == 5          \* dependencies listed before the overflow marker
MaxCallers == 2         \* threads sharing one CircuitBreaker
MaxCalls == 3           \* calls one thread makes on the CircuitBreaker
FailureThreshold == 1   \* CircuitConfig.failure_threshold
HalfOpenMaxCalls == 1   \* CircuitConfig.half_open_max_calls
RecoveryTimeout == 2    \* CircuitConfig.recovery_timeout_secs, in time units
MaxBackoff == 2         \* CircuitConfig.max_backoff_secs, in time units
MaxItems == 2           \* items per job request
MaxBatchItems == 3      \* items per process_batch call
MaxChunksPerItem == 2   \* chunks a chunker returns for one item
BatchSize == 2          \* sink client batch_size (with_batch_size)
BufferSize == 2         \* BatchConfig.buffer_size
ChannelCap == 1         \* capacity of the mpsc channel given to streaming

Min(a, b) == IF a < b THEN a ELSE b

(***************************************************************************)
(* Items.  A chunker call (router.get_chunker(item).chunk(item, cfg)) is    *)
(* deterministic in the item; its outcome is Ok(n chunks), Err, or a panic. *)
(***************************************************************************)
ItemKinds ==
    [res : {"ok"}, n : 0..MaxChunksPerItem] \cup
    [res : {"err", "panic"}, n : {0}]

\* Non-panicking items (batch.rs callers)
SeqsUpTo(S, n) == UNION {[1..k -> S] : k \in 0..n}

\* The chunks process_item returns for the item at position i: Ok(chunks)
ItemChunks(item, i) ==
    IF item.res = "ok" THEN [k \in 1..item.n |-> <<i, k - 1>>] ELSE <<>>

(***************************************************************************)
(* jobs/store.rs                                                           *)
(***************************************************************************)
ChunkJobStatus == {"Pending", "Running", "Completed", "Failed"}

JobRecord_new(job_id, total_items, utc_now) ==
    [job_id |-> job_id, status |-> "Pending", total_items |-> total_items,
     processed_items |-> 0, chunks_created |-> 0, error |-> "None",
     started_at |-> <<>>, completed_at |-> <<>>, created_at |-> utc_now]

\* Option<DateTime<Utc>> is <<>> (None) or <<t>> (Some(t)); utc_now is Utc::now()
start(job, utc_now) ==
    [job EXCEPT !.status = "Running", !.started_at = <<utc_now>>]

update_progress(job, processed, chunks) ==
    [job EXCEPT !.processed_items = processed, !.chunks_created = chunks]

complete(job, utc_now) ==
    [job EXCEPT !.status = "Completed", !.completed_at = <<utc_now>>]

fail(job, error, utc_now) ==
    [job EXCEPT !.status = "Failed", !.error = error,
                !.completed_at = <<utc_now>>]

JobStore_new == <<>>

create_job(s, job_id, total_items, utc_now) ==
    (job_id :> JobRecord_new(job_id, total_items, utc_now)) @@ s

start_job(s, job_id, utc_now) ==
    IF job_id \in DOMAIN s THEN [s EXCEPT ![job_id] = start(@, utc_now)] ELSE s

update_job_progress(s, job_id, processed, chunks) ==
    IF job_id \in DOMAIN s
    THEN [s EXCEPT ![job_id] = update_progress(@, processed, chunks)]
    ELSE s

complete_job(s, job_id, utc_now) ==
    IF job_id \in DOMAIN s
    THEN [s EXCEPT ![job_id] = complete(@, utc_now)]
    ELSE s

fail_job(s, job_id, error, utc_now) ==
    IF job_id \in DOMAIN s
    THEN [s EXCEPT ![job_id] = fail(@, error, utc_now)]
    ELSE s

\* chrono::Duration::hours(1), in clock units
OneHour == 1

\* retain(): terminal jobs stay iff completed_at.map_or(true, |t| t > cutoff)
cleanup_old_jobs(s, utc_now) ==
    LET cutoff == utc_now - OneHour
        keep(job) ==
            IF job.status \in {"Completed", "Failed"}
            THEN IF job.completed_at = <<>> THEN TRUE
                 ELSE job.completed_at[1] > cutoff
            ELSE TRUE
        kept == {j \in DOMAIN s : keep(s[j])}
    IN [j \in kept |-> s[j]]

\* Option<ChunkJobStatusResponse>: the record, or "NotFound" (404 in the handler)
get_job_status(s, job_id) ==
    IF job_id \in DOMAIN s THEN s[job_id] ELSE [status |-> "NotFound"]

(***************************************************************************)
(* State                                                                   *)
(***************************************************************************)
VARIABLES
    jobStore,     \* AppState.job_store: RwLock<JobStore>
    background,   \* per spawned task: the store created in start_chunk_job
    task,         \* spawned process_job futures, keyed by job_id
    nextUuid,     \* Uuid::new_v4(): fresh ids
    response      \* last HTTP response of get_job_status

jobVars == <<jobStore, background, task, nextUuid, response>>

VARIABLES
    batch,        \* locals of one process_batch / process_batch_streaming call
    chan,         \* mpsc channel of Vec<Chunk> batches (queued, not yet received)
    receiver      \* the consumer's Receiver: "open" or "dropped"

batchVars == <<batch, chan, receiver>>

VARIABLES
    now           \* Utc::now(), in hours since the service started

clockVars == <<now>>

VARIABLES
    tok           \* locals of one TokenChunker::chunk call

tokVars == <<tok>>

VARIABLES
    large         \* locals of one process_large_item call

largeVars == <<large>>

VARIABLES
    code          \* one CodeChunker::chunk call: its item and what it returned

codeVars == <<code>>

VARIABLES
    call          \* one Chunker::chunk call of a text chunker: item and result

callVars == <<call>>

VARIABLES
    route         \* one ChunkingRouter::get_chunker call: item and chunker name

routeVars == <<route>>

VARIABLES
    sink          \* locals of one send_chunks call of a sink client

sinkVars == <<sink>>

VARIABLES
    prefix        \* one ContextBuilder::build_prefix call: context and prefix

prefixVars == <<prefix>>

VARIABLES
    scope         \* one ScopeTree: its nodes and the last lookup by line

scopeVars == <<scope>>

VARIABLES
    cb            \* the CircuitBreaker: its locks and fields, and its callers

cbVars == <<cb>>

vars == <<jobVars, batchVars, clockVars, tokVars, largeVars, codeVars, callVars, routeVars, sinkVars, prefixVars, scopeVars, cbVars>>

\* what the job pipeline / the batch processor / a chunker call leave alone
nonJobVars == <<batchVars, clockVars, tokVars, largeVars, codeVars, callVars, routeVars, sinkVars, prefixVars, scopeVars, cbVars>>
nonBatchVars == <<jobVars, clockVars, tokVars, largeVars, codeVars, callVars, routeVars, sinkVars, prefixVars, scopeVars, cbVars>>
nonTokVars == <<jobVars, batchVars, clockVars, largeVars, codeVars, callVars, routeVars, sinkVars, prefixVars, scopeVars, cbVars>>
nonLargeVars == <<jobVars, batchVars, clockVars, tokVars, codeVars, callVars, routeVars, sinkVars, prefixVars, scopeVars, cbVars>>
nonCodeVars == <<jobVars, batchVars, clockVars, tokVars, largeVars, callVars, routeVars, sinkVars, prefixVars, scopeVars, cbVars>>
nonCallVars == <<jobVars, batchVars, clockVars, tokVars, largeVars, codeVars, routeVars, sinkVars, prefixVars, scopeVars, cbVars>>
nonRouteVars == <<jobVars, batchVars, clockVars, tokVars, largeVars, codeVars, callVars, sinkVars, prefixVars, scopeVars, cbVars>>
nonSinkVars == <<jobVars, batchVars, clockVars, tokVars, largeVars, codeVars, callVars, routeVars, prefixVars, scopeVars, cbVars>>
nonPrefixVars == <<jobVars, batchVars, clockVars, tokVars, largeVars, codeVars, callVars, routeVars, sinkVars, scopeVars, cbVars>>
nonScopeVars == <<jobVars, batchVars, clockVars, tokVars, largeVars, codeVars, callVars, routeVars, sinkVars, prefixVars, cbVars>>
nonCbVars == <<jobVars, batchVars, clockVars, tokVars, largeVars, codeVars, callVars, routeVars, sinkVars, prefixVars, scopeVars>>

Sinks == {"embedding", "graph"}

\* A branch of the fan-out before its first poll
SinkIdle == [pos |-> 0, posted |-> <<>>, count |-> 0, failed |-> 0]

\* Local state of one process_job future (processor.rs:36-94)
NewTask(store, items, clients) ==
    [pc |-> "start", store |-> store, items |-> items, clients |-> clients,
     idx |-> 0, processed |-> 0, total_chunks |-> 0, all_chunks |-> <<>>,
     guard |-> FALSE, locks |-> 0,
     sink |-> [s \in Sinks |-> SinkIdle]]

\* Option<Arc<EmbeddingClient>>, Option<Arc<RelationGraphClient>> (+ enabled flag)
ClientConfigs ==
    [embedding : {"None", "Some"}, graph : {"None", "Disabled", "Some"}]

\* Locals of process_batch (batch.rs:72-76) / process_batch_streaming
\* (batch.rs:128-133); `buffer` is all_chunks in process_batch.
NewBatchCall(mode, items, continue_on_error, pc) ==
    [pc |-> pc, mode |-> mode, items |-> items,
     continue_on_error |-> continue_on_error,
     idx |-> 0, buffer |-> <<>>,
     processed_items |-> 0, failed_items |-> 0, total_chunks |-> 0,
     errors |-> <<>>, warned |-> FALSE, result |-> [kind |-> "None"]]

\* threads that call the CircuitBreaker
Callers == 1..MaxCallers

\* a thread outside the CircuitBreaker's functions, after `calls` calls
CallerIdle(calls) ==
    [pc |-> "idle", calls |-> calls, op |-> "none", failures |-> 0,
     new_state |-> "none"]

\* CircuitBreaker::new (circuit_breaker.rs:64-75).  state_writer is the
\* thread holding state.write() (0: none), retry_readers the threads holding
\* next_retry_time.read(); `admitted` counts the requests allow_request has
\* let through in the current half-open period.
CircuitBreaker_new ==
    [state |-> "Closed", failures |-> 0, half_open_calls |-> 0,
     retry_count |-> 0, next_retry_time |-> <<>>,
     state_writer |-> 0, retry_readers |-> {},
     admitted |-> 0,
     caller |-> [t \in Callers |-> CallerIdle(0)]]

Init ==
    /\ jobStore = JobStore_new
    /\ background = <<>>
    /\ task = <<>>
    /\ nextUuid = 1
    /\ response = [kind |-> "none"]
    /\ batch = NewBatchCall("none", <<>>, TRUE, "idle")
    /\ chan = <<>>
    /\ receiver = "open"
    /\ now = 0
    /\ tok = [pc |-> "idle"]
    /\ large = [pc |-> "idle"]
    /\ code = [pc |-> "idle"]
    /\ call = [pc |-> "idle"]
    /\ route = [pc |-> "idle"]
    /\ sink = [pc |-> "idle"]
    /\ prefix = [pc |-> "idle"]
    /\ scope = [pc |-> "idle"]
    /\ cb = CircuitBreaker_new

\* The store handle a task was given
StoreOf(t) == IF task[t].store = "shared" THEN jobStore ELSE background[t]

WriteStore(t, s2) ==
    IF task[t].store = "shared"
    THEN jobStore' = s2 /\ UNCHANGED background
    ELSE background' = [background EXCEPT ![t] = s2] /\ UNCHANGED jobStore

(***************************************************************************)
(* api/handlers.rs                                                         *)
(***************************************************************************)
\* start_chunk_job with an empty request: accepted = false, nothing created
StartChunkJobEmpty ==
    /\ response' = [kind |-> "start", accepted |-> FALSE, job_id |-> 0]
    /\ UNCHANGED <<jobStore, background, task, nextUuid>>
    /\ UNCHANGED nonJobVars

\* start_chunk_job: creates the job in state.job_store, then builds a NEW
\* JobStore for the background task, creates a job (with its own fresh uuid)
\* in it, and spawns process_job(job_id, request, background_store).
StartChunkJob(items, embedding_url) ==
    /\ Len(items) > 0
    /\ Cardinality(DOMAIN task) < MaxJobs
    /\ LET job_id == nextUuid
           bg_id == nextUuid + 1
           clients == [embedding |-> embedding_url, graph |-> "None"]
       IN /\ jobStore' = create_job(jobStore, job_id, Len(items), now)
          /\ background' =
                (job_id :> create_job(JobStore_new, bg_id, Len(items), now)) @@ background
          /\ task' = (job_id :> NewTask("background", items, clients)) @@ task
          /\ nextUuid' = nextUuid + 2
          /\ response' = [kind |-> "start", accepted |-> TRUE, job_id |-> job_id]
    /\ UNCHANGED nonJobVars

\* some task holds the write guard of state.job_store
StoreWriteLocked ==
    \E t \in DOMAIN task : task[t].store = "shared" /\ task[t].guard

\* get_job_status: reads state.job_store under its read lock
GetJobStatus(job_id) ==
    /\ ~StoreWriteLocked
    /\ response' = [kind |-> "status", job_id |-> job_id,
                    status |-> get_job_status(jobStore, job_id).status]
    /\ UNCHANGED <<jobStore, background, task, nextUuid>>
    /\ UNCHANGED nonJobVars

(***************************************************************************)
(* One run of the job pipeline as process_job expects to be called: the     *)
(* job is created in a store for the request's items and process_job gets   *)
(* a handle to that same store.                                             *)
(***************************************************************************)
SubmitJob(items, clients) ==
    /\ task = <<>>
    /\ LET job_id == nextUuid
       IN /\ jobStore' = create_job(jobStore, job_id, Len(items), now)
          /\ task' = (job_id :> NewTask("shared", items, clients)) @@ task
          /\ nextUuid' = nextUuid + 1
    /\ UNCHANGED <<background, response>>
    /\ UNCHANGED nonJobVars

(***************************************************************************)
(* jobs/processor.rs: process_job, one action per await point               *)
(***************************************************************************)
\* the places where process_job takes the store's write lock
LockSites == {"start", "progress", "complete"}

\* `let mut store = job_store.write().await;` : the guard is obtained once
\* no other holder of the same RwLock has it
PJLock(t) ==
    /\ task[t].pc \in LockSites
    /\ ~task[t].guard
    /\ task[t].store = "shared" => ~StoreWriteLocked
    /\ task' = [task EXCEPT ![t].guard = TRUE, ![t].locks = @ + 1]
    /\ UNCHANGED <<jobStore, background, nextUuid, response>>
    /\ UNCHANGED nonJobVars

\* the guard kept alive past its block (bound in the function's scope)
EndOfBlock_kept(tk) == tk

\* `}` : the block that holds `store` ends and the guard is dropped
EndOfBlock(tk) == [tk EXCEPT !.guard = FALSE]

\* "Mark job as started"
PJStart(t) ==
    /\ task[t].pc = "start"
    /\ task[t].guard
    /\ WriteStore(t, start_job(StoreOf(t), t, now))
    /\ task' = [task EXCEPT ![t] = EndOfBlock([@ EXCEPT !.pc =
                    IF Len(task[t].items) = 0 THEN "fanout" ELSE "chunk"])]
    /\ UNCHANGED <<nextUuid, response>>
    /\ UNCHANGED nonJobVars

\* LoopBody with `continue` in the Err arm: a failed item is not counted
LoopBody_uncounted(tk, item) ==
    IF item.res = "panic"
    THEN [tk EXCEPT !.pc = "panicked"]
    ELSE [tk EXCEPT
            !.total_chunks = IF item.res = "ok" THEN @ + item.n ELSE @,
            !.all_chunks = @ \o ItemChunks(item, tk.idx + 1),
            !.idx = @ + 1,
            !.processed = IF item.res = "ok" THEN @ + 1 ELSE @,
            !.pc = "progress"]

\* LoopBody with `break` in the Err arm: a failed item ends the loop
LoopBody_break(tk, item) ==
    IF item.res = "panic"
    THEN [tk EXCEPT !.pc = "panicked"]
    ELSE [tk EXCEPT
            !.total_chunks = IF item.res = "ok" THEN @ + item.n ELSE @,
            !.all_chunks = @ \o ItemChunks(item, tk.idx + 1),
            !.idx = IF item.res = "ok" THEN @ + 1 ELSE Len(tk.items),
            !.processed = @ + 1,
            !.pc = "progress"]

\* One iteration of `for item in &request.items` up to the progress lock:
\* match process_item(item) { Ok(chunks) => count and keep them,
\* Err(e) => warn!(..) }; processed += 1.  `idx` is the loop iterator.
\* A panic in the chunker unwinds the future: the spawned task ends there.
LoopBody(tk, item) ==
    IF item.res = "panic"
    THEN [tk EXCEPT !.pc = "panicked"]
    ELSE [tk EXCEPT
            !.total_chunks = IF item.res = "ok" THEN @ + item.n ELSE @,
            !.all_chunks = @ \o ItemChunks(item, tk.idx + 1),
            !.idx = @ + 1,
            !.processed = @ + 1,
            !.pc = "progress"]

PJChunk(t) ==
    /\ task[t].pc = "chunk"
    /\ task' = [task EXCEPT ![t] = LoopBody(@, @.items[@.idx + 1])]
    /\ UNCHANGED <<jobStore, background, nextUuid, response>>
    /\ UNCHANGED nonJobVars

\* "Update progress"
PJProgress(t) ==
    /\ task[t].pc = "progress"
    /\ task[t].guard
    /\ WriteStore(t, update_job_progress(StoreOf(t), t,
                        task[t].processed, task[t].total_chunks))
    /\ task' = [task EXCEPT ![t] = EndOfBlock([@ EXCEPT !.pc =
                    IF task[t].idx < Len(task[t].items)
                    THEN "chunk" ELSE "fanout"])]
    /\ UNCHANGED <<nextUuid, response>>
    /\ UNCHANGED nonJobVars

(***************************************************************************)
(* send_chunks_to_downstream_services + the two sink clients' send_chunks  *)
(***************************************************************************)
\* chunks.chunks(batch_size): the slice that starts after `pos` chunks
chunks_slice(chunks, pos, batch_size) ==
    SubSeq(chunks, pos + 1, Min(pos + batch_size, Len(chunks)))

\* the branch of join! for sink s calls client.send_chunks
\* (`if chunks.is_empty() { return; }`, `if let Some(client)`, is_enabled())
SinkCalled(tk, s) ==
    /\ Len(tk.all_chunks) > 0
    /\ tk.clients[s] = "Some"

\* the branch for sink s has returned
SinkSettled(tk, s) ==
    SinkCalled(tk, s) => tk.sink[s].pos >= Len(tk.all_chunks)

\* select!-like fan-out: returns when the first branch has returned
JoinReady_first(tk) == \E s \in Sinks : SinkSettled(tk, s)

\* tokio::join!: returns once both branches have returned
JoinReady(tk) == \A s \in Sinks : SinkSettled(tk, s)

\* one send_batch of one branch; the HTTP request succeeds or fails
SendBatch(t, s, ok) ==
    /\ task[t].pc = "fanout"
    /\ SinkCalled(task[t], s)
    /\ ~SinkSettled(task[t], s)
    /\ LET b == task[t].sink[s]
           slice == chunks_slice(task[t].all_chunks, b.pos, BatchSize)
       IN task' = [task EXCEPT ![t].sink[s] =
                     [pos |-> b.pos + BatchSize,
                      posted |-> b.posted \o slice,
                      count |-> IF ok THEN b.count + Len(slice) ELSE b.count,
                      failed |-> IF ok THEN b.failed ELSE b.failed + 1]]
    /\ UNCHANGED <<jobStore, background, nextUuid, response>>
    /\ UNCHANGED nonJobVars

\* the fan-out returns to process_job
PJJoin(t) ==
    /\ task[t].pc = "fanout"
    /\ JoinReady(task[t])
    /\ task' = [task EXCEPT ![t].pc = "complete"]
    /\ UNCHANGED <<jobStore, background, nextUuid, response>>
    /\ UNCHANGED nonJobVars

\* "Mark job as completed"
PJComplete(t) ==
    /\ task[t].pc = "complete"
    /\ task[t].guard
    /\ WriteStore(t, complete_job(StoreOf(t), t, now))
    /\ task' = [task EXCEPT ![t] = EndOfBlock([@ EXCEPT !.pc = "done"])]
    /\ UNCHANGED <<nextUuid, response>>
    /\ UNCHANGED nonJobVars

Requests == SeqsUpTo(ItemKinds, MaxItems)

(***************************************************************************)
(* SpecJob: jobs processed on the store that holds them                     *)
(***************************************************************************)
NextJob ==
    \/ \E items \in Requests, c \in ClientConfigs : SubmitJob(items, c)
    \/ \E j \in 1..MaxJobs : GetJobStatus(j)
    \/ \E t \in DOMAIN task : PJLock(t)
    \/ \E t \in DOMAIN task : PJStart(t)
    \/ \E t \in DOMAIN task : PJChunk(t)
    \/ \E t \in DOMAIN task : PJProgress(t)
    \/ \E t \in DOMAIN task, s \in Sinks, ok \in BOOLEAN : SendBatch(t, s, ok)
    \/ \E t \in DOMAIN task : PJJoin(t)
    \/ \E t \in DOMAIN task : PJComplete(t)

SpecJob == Init /\ [][NextJob]_vars

(***************************************************************************)
(* SpecStore: the JobStore API under arbitrary call sequences               *)
(***************************************************************************)
ErrorMessages == {"chunker panicked"}

StoreCreateJob(total_items) ==
    /\ nextUuid <= MaxJobs
    /\ jobStore' = create_job(jobStore, nextUuid, total_items, now)
    /\ nextUuid' = nextUuid + 1
    /\ UNCHANGED <<background, task, response>>
    /\ UNCHANGED nonJobVars

StoreStartJob(job_id) ==
    /\ jobStore' = start_job(jobStore, job_id, now)
    /\ UNCHANGED <<background, task, nextUuid, response>>
    /\ UNCHANGED nonJobVars

StoreUpdateJobProgress(job_id, processed, chunks) ==
    /\ jobStore' = update_job_progress(jobStore, job_id, processed, chunks)
    /\ UNCHANGED <<background, task, nextUuid, response>>
    /\ UNCHANGED nonJobVars

StoreCompleteJob(job_id) ==
    /\ jobStore' = complete_job(jobStore, job_id, now)
    /\ UNCHANGED <<background, task, nextUuid, response>>
    /\ UNCHANGED nonJobVars

StoreFailJob(job_id, error) ==
    /\ jobStore' = fail_job(jobStore, job_id, error, now)
    /\ UNCHANGED <<background, task, nextUuid, response>>
    /\ UNCHANGED nonJobVars

NextStore ==
    \/ \E n \in 0..MaxItems : StoreCreateJob(n)
    \/ \E j \in 1..MaxJobs : StoreStartJob(j)
    \/ \E j \in 1..MaxJobs, p \in 0..(MaxItems + 1), c \in 0..MaxChunksPerItem :
            StoreUpdateJobProgress(j, p, c)
    \/ \E j \in 1..MaxJobs : StoreCompleteJob(j)
    \/ \E j \in 1..MaxJobs, e \in ErrorMessages : StoreFailJob(j, e)

SpecStore == Init /\ [][NextStore]_vars

(***************************************************************************)
(* SpecGc: the JobStore API with a running clock and cleanup_old_jobs       *)
(***************************************************************************)
\* Wall-clock time passes between calls
Tick ==
    /\ now < MaxTime
    /\ now' = now + 1
    /\ UNCHANGED <<jobVars, batchVars, tokVars, largeVars, codeVars, callVars,
                   routeVars, sinkVars, prefixVars, scopeVars, cbVars>>

CleanupOldJobs ==
    /\ jobStore' = cleanup_old_jobs(jobStore, now)
    /\ UNCHANGED <<background, task, nextUuid, response>>
    /\ UNCHANGED nonJobVars

NextGc ==
    \/ \E n \in 0..MaxItems : StoreCreateJob(n)
    \/ \E j \in 1..MaxJobs : StoreStartJob(j)
    \/ \E j \in 1..MaxJobs : StoreCompleteJob(j)
    \/ \E j \in 1..MaxJobs, e \in ErrorMessages : StoreFailJob(j, e)
    \/ Tick
    \/ CleanupOldJobs

SpecGc == Init /\ [][NextGc]_vars

(***************************************************************************)
(* SpecApi: the HTTP surface                                                *)
(***************************************************************************)
NextApi ==
    \/ StartChunkJobEmpty
    \/ \E items \in Requests, u \in {"None", "Some"} : StartChunkJob(items, u)
    \/ \E j \in 1..(2 * MaxJobs) : GetJobStatus(j)
    \/ \E t \in DOMAIN task : PJLock(t)
    \/ \E t \in DOMAIN task : PJStart(t)
    \/ \E t \in DOMAIN task : PJChunk(t)
    \/ \E t \in DOMAIN task : PJProgress(t)
    \/ \E t \in DOMAIN task, s \in Sinks, ok \in BOOLEAN : SendBatch(t, s, ok)
    \/ \E t \in DOMAIN task : PJJoin(t)
    \/ \E t \in DOMAIN task : PJComplete(t)

SpecApi == Init /\ [][NextApi]_vars

(***************************************************************************)
(* batch.rs: BatchProcessor                                                 *)
(***************************************************************************)
BatchItemKinds == {k \in ItemKinds : k.res # "panic"}

BatchRequests == SeqsUpTo(BatchItemKinds, MaxBatchItems)

\* BatchResult { total_items, processed_items, failed_items, total_chunks, errors }
BatchResult(b, total_chunks) ==
    [kind |-> "Ok", total_items |-> Len(b.items),
     processed_items |-> b.processed_items, failed_items |-> b.failed_items,
     total_chunks |-> total_chunks, errors |-> b.errors]

\* the test with the negation lost
StopOnError_inverted(continue_on_error) == continue_on_error

\* `if !self.config.continue_on_error { return Err(e); }`
StopOnError(continue_on_error) == ~continue_on_error

\* The Err(e) arm of both loops: record the error, count it, maybe return it
ErrArm(b) ==
    LET b1 == [b EXCEPT !.errors = Append(@, b.idx + 1),
                        !.failed_items = @ + 1]
    IN IF StopOnError(b.continue_on_error)
       THEN [b1 EXCEPT !.pc = "done",
                       !.result = [kind |-> "Err", item |-> b.idx + 1]]
       ELSE [b1 EXCEPT !.idx = @ + 1]

\* a caller invokes process_batch(items, cfg)
ProcessBatchCall(items, continue_on_error) ==
    /\ batch.pc = "idle"
    /\ batch' = NewBatchCall("batch", items, continue_on_error, "loop")
    /\ UNCHANGED <<chan, receiver>>
    /\ UNCHANGED nonBatchVars

\* one iteration of the loop of process_batch
PBItem ==
    /\ batch.pc = "loop" /\ batch.mode = "batch"
    /\ batch.idx < Len(batch.items)
    /\ LET item == batch.items[batch.idx + 1]
       IN batch' = IF item.res = "ok"
                   THEN [batch EXCEPT
                           !.buffer = @ \o ItemChunks(item, batch.idx + 1),
                           !.processed_items = @ + 1,
                           !.idx = @ + 1]
                   ELSE ErrArm(batch)
    /\ UNCHANGED <<chan, receiver>>
    /\ UNCHANGED nonBatchVars

\* after the loop: Ok((all_chunks, result))
PBReturn ==
    /\ batch.pc = "loop" /\ batch.mode = "batch"
    /\ batch.idx = Len(batch.items)
    /\ batch' = [batch EXCEPT !.pc = "done",
                              !.total_chunks = Len(batch.buffer),
                              !.result = BatchResult(batch, Len(batch.buffer))]
    /\ UNCHANGED <<chan, receiver>>
    /\ UNCHANGED nonBatchVars

\* a caller invokes process_batch_streaming(items, cfg, sender)
ProcessBatchStreamingCall(items, continue_on_error) ==
    /\ batch.pc = "idle"
    /\ batch' = NewBatchCall("streaming", items, continue_on_error, "loop")
    /\ UNCHANGED <<chan, receiver>>
    /\ UNCHANGED nonBatchVars

\* "Send when buffer is full"
BufferFull(buffer) == Len(buffer) >= BufferSize

\* one iteration of the streaming loop up to the send
PSItem ==
    /\ batch.pc = "loop" /\ batch.mode = "streaming"
    /\ batch.idx < Len(batch.items)
    /\ LET item == batch.items[batch.idx + 1]
           buf == batch.buffer \o ItemChunks(item, batch.idx + 1)
       IN batch' = IF item.res = "ok"
                   THEN [batch EXCEPT
                           !.total_chunks = @ + item.n,
                           !.buffer = buf,
                           !.processed_items = @ + 1,
                           !.idx = @ + 1,
                           !.pc = IF BufferFull(buf) THEN "send" ELSE "loop"]
                   ELSE ErrArm(batch)
    /\ UNCHANGED <<chan, receiver>>
    /\ UNCHANGED nonBatchVars

\* AfterSend without the `break`: the loop goes on after a failed send
AfterSend_continue(b, is_err) ==
    IF is_err
    THEN [b EXCEPT !.warned = TRUE, !.pc = "loop"]
    ELSE [b EXCEPT !.buffer = <<>>, !.pc = "loop"]

\* the locals after `sender.send(buffer.clone()).await` returned:
\* is_err => warn!("Receiver dropped, ..."); break;   else buffer.clear()
AfterSend(b, is_err) ==
    IF is_err
    THEN [b EXCEPT !.warned = TRUE, !.pc = "final"]
    ELSE [b EXCEPT !.buffer = <<>>, !.pc = "loop"]

\* sender.send(..).await: Err when the receiver is gone, otherwise it waits
\* for capacity and enqueues
PSSend ==
    /\ batch.pc = "send"
    /\ \/ /\ receiver = "dropped"
          /\ batch' = AfterSend(batch, TRUE)
          /\ UNCHANGED chan
       \/ /\ receiver = "open"
          /\ Len(chan) < ChannelCap
          /\ chan' = Append(chan, batch.buffer)
          /\ batch' = AfterSend(batch, FALSE)
    /\ UNCHANGED receiver
    /\ UNCHANGED nonBatchVars

\* "Send remaining chunks" (result ignored), then Ok(BatchResult)
PSFinal ==
    /\ batch.mode = "streaming"
    /\ \/ batch.pc = "final"
       \/ batch.pc = "loop" /\ batch.idx = Len(batch.items)
    /\ \/ /\ batch.buffer = <<>>
          /\ UNCHANGED chan
       \/ /\ batch.buffer # <<>>
          /\ receiver = "dropped"
          /\ UNCHANGED chan
       \/ /\ batch.buffer # <<>>
          /\ receiver = "open"
          /\ Len(chan) < ChannelCap
          /\ chan' = Append(chan, batch.buffer)
    /\ batch' = [batch EXCEPT !.pc = "done",
                              !.result = BatchResult(batch, batch.total_chunks)]
    /\ UNCHANGED receiver
    /\ UNCHANGED nonBatchVars

\* the consumer: rx.recv().await
Recv ==
    /\ receiver = "open"
    /\ chan # <<>>
    /\ chan' = Tail(chan)
    /\ UNCHANGED <<batch, receiver>>
    /\ UNCHANGED nonBatchVars

\* the consumer drops the Receiver: the channel closes, queued batches are lost
DropReceiver ==
    /\ receiver = "open"
    /\ batch.mode = "streaming"
    /\ receiver' = "dropped"
    /\ chan' = <<>>
    /\ UNCHANGED batch
    /\ UNCHANGED nonBatchVars

NextBatch ==
    \/ \E items \in BatchRequests, c \in BOOLEAN : ProcessBatchCall(items, c)
    \/ PBItem
    \/ PBReturn
    \/ \E items \in BatchRequests, c \in BOOLEAN :
            ProcessBatchStreamingCall(items, c)
    \/ PSItem
    \/ PSSend
    \/ PSFinal
    \/ Recv
    \/ DropReceiver

SpecBatch == Init /\ [][NextBatch]_vars

(***************************************************************************)
(* Properties of the job store and the job pipeline                         *)
(***************************************************************************)
LegalStatusStep(a, b) ==
    \/ a = b
    \/ <<a, b>> \in {<<"Pending", "Running">>, <<"Running", "Completed">>,
                     <<"Running", "Failed">>}

\* C1: under any sequence of store operations, a job's statuses follow
\* pending -> running -> (completed | failed): no step leaves a terminal
\* status, and pending never goes straight to a terminal status.
C1_StatusOrder ==
    [][\A j \in DOMAIN jobStore :
          j \in DOMAIN jobStore' =>
              LegalStatusStep(jobStore[j].status, jobStore'[j].status)]_vars

\* C2: once the background processor of an accepted job has finished, the
\* status get_job_status returns for that job is completed.
C2_StatusReachesCompleted ==
    \A t \in DOMAIN task :
        task[t].pc = "done" =>
            get_job_status(jobStore, t).status = "Completed"

AllFailed(b) == b.failed > 0 /\ b.count = 0
NoneFailed(b) == b.failed = 0

\* C3: with both sinks configured and at least one chunk, when the fan-out
\* has returned and every request of one sink failed while no request of the
\* other did, the other sink has been posted every chunk of the job exactly
\* once (in order), and the finished job is completed.
C3_FanOutIndependent ==
    \A t \in DOMAIN task :
        LET tk == task[t] IN
        (/\ tk.pc \in {"complete", "done"}
         /\ \A s \in Sinks : tk.clients[s] = "Some"
         /\ tk.all_chunks # <<>>)
        => \A s \in Sinks, o \in Sinks :
              (s # o /\ AllFailed(tk.sink[o]) /\ NoneFailed(tk.sink[s]))
              => /\ tk.sink[s].posted = tk.all_chunks
                 /\ tk.sink[s].count = Len(tk.all_chunks)
                 /\ tk.pc = "done" => StoreOf(t)[t].status = "Completed"

C3_Witness ==
    \E t \in DOMAIN task :
        /\ task[t].pc = "done"
        /\ \A s \in Sinks : task[t].clients[s] = "Some"
        /\ Len(task[t].all_chunks) > BatchSize
        /\ AllFailed(task[t].sink["embedding"])
        /\ NoneFailed(task[t].sink["graph"])
        /\ task[t].sink["graph"].posted = task[t].all_chunks

\* C4: when the job processor panics, the job is failed with the captured
\* message in its error field.
C4_PanicFailsJob ==
    \A t \in DOMAIN task :
        task[t].pc = "panicked" =>
            /\ StoreOf(t)[t].status = "Failed"
            /\ StoreOf(t)[t].error # "None"

\* C5: under any sequence of progress updates, processed_items never
\* decreases and never exceeds total_items.
C5_ProgressMonotoneBounded ==
    [][\A j \in DOMAIN jobStore' :
          /\ jobStore'[j].processed_items <= jobStore'[j].total_items
          /\ j \in DOMAIN jobStore =>
                jobStore'[j].processed_items >= jobStore[j].processed_items]_vars

\* C6: a completed job has processed_items = total_items.
C6_CompletedAllProcessed ==
    \A j \in DOMAIN jobStore :
        jobStore[j].status = "Completed" =>
            jobStore[j].processed_items = jobStore[j].total_items

C6_Witness ==
    \E j \in DOMAIN jobStore :
        /\ jobStore[j].status = "Completed"
        /\ jobStore[j].total_items >= 2
        /\ \E i \in 1..Len(task[j].items) : task[j].items[i].res = "err"

RECURSIVE ChunksOfItems(_, _)
\* the chunks of the items i..Len(items) that chunk successfully, in order
ChunksOfItems(items, i) ==
    IF i > Len(items) THEN <<>>
    ELSE ItemChunks(items[i], i) \o ChunksOfItems(items, i + 1)

HasErrItem(items) == \E i \in 1..Len(items) : items[i].res = "err"

\* C7: a job with an item the chunker fails on still processes every other
\* item in order and ends completed, chunks_created counting exactly the
\* chunks of the items that succeeded.
C7_ItemErrorSkipped ==
    \A t \in DOMAIN task :
        (task[t].pc = "done" /\ HasErrItem(task[t].items))
        => /\ StoreOf(t)[t].status = "Completed"
           /\ task[t].all_chunks = ChunksOfItems(task[t].items, 1)
           /\ StoreOf(t)[t].chunks_created = Len(ChunksOfItems(task[t].items, 1))
           /\ StoreOf(t)[t].processed_items = Len(task[t].items)

C7_Witness ==
    \E t \in DOMAIN task :
        /\ task[t].pc = "done"
        /\ Len(task[t].items) >= 2
        /\ task[t].items[1].res = "err"
        /\ task[t].items[2].res = "ok" /\ task[t].items[2].n > 0
        /\ StoreOf(t)[t].chunks_created = task[t].items[2].n

(***************************************************************************)
(* Properties of the batch processor                                        *)
(***************************************************************************)
\* C8: in process_batch_streaming a send attempted after the receiver was
\* dropped is seen to fail, and from then on no further item is processed
\* and the call returns Ok(BatchResult), never Err.
C8_HaltOnDroppedReceiver ==
    [][/\ (batch.pc = "send" /\ receiver = "dropped" /\ batch' # batch)
             => batch'.warned
       /\ batch.warned =>
             /\ batch'.warned
             /\ batch'.idx = batch.idx
             /\ batch'.processed_items = batch.processed_items
             /\ batch'.failed_items = batch.failed_items
             /\ batch'.result.kind # "Err"
             /\ batch'.pc = "done" => batch'.result.kind = "Ok"]_vars

C8_Witness ==
    /\ batch.mode = "streaming"
    /\ batch.warned
    /\ batch.pc = "done"
    /\ batch.idx < Len(batch.items)
    /\ batch.result.kind = "Ok"

ErrIndices(items) == {i \in 1..Len(items) : items[i].res = "err"}

FirstErr(items) ==
    CHOOSE i \in ErrIndices(items) : \A k \in ErrIndices(items) : i <= k

RECURSIVE ErrItemsFrom(_, _)
\* positions of the failing items i..Len(items), in order
ErrItemsFrom(items, i) ==
    IF i > Len(items) THEN <<>>
    ELSE (IF items[i].res = "err" THEN <<i>> ELSE <<>>)
            \o ErrItemsFrom(items, i + 1)

\* C9: process_batch with continue_on_error goes through all items and
\* returns Ok with processed + failed = total and one errors[] entry per
\* failed item; without it, it stops at the first failing item and returns
\* that item's error.
C9_ContinueOnError ==
    (batch.mode = "batch" /\ batch.pc = "done") =>
        IF batch.continue_on_error \/ ErrIndices(batch.items) = {}
        THEN /\ batch.result.kind = "Ok"
             /\ batch.idx = Len(batch.items)
             /\ batch.result.total_items = Len(batch.items)
             /\ batch.result.processed_items + batch.result.failed_items
                    = batch.result.total_items
             /\ batch.result.failed_items = Cardinality(ErrIndices(batch.items))
             /\ batch.result.errors = ErrItemsFrom(batch.items, 1)
             /\ batch.buffer = ChunksOfItems(batch.items, 1)
        ELSE /\ batch.result.kind = "Err"
             /\ batch.result.item = FirstErr(batch.items)
             /\ batch.idx = FirstErr(batch.items) - 1
             /\ batch.processed_items = FirstErr(batch.items) - 1
             /\ batch.errors = <<FirstErr(batch.items)>>

C9_Witness ==
    /\ batch.mode = "batch" /\ batch.pc = "done"
    /\ batch.continue_on_error
    /\ Len(batch.items) >= 2
    /\ batch.items[1].res = "err"
    /\ batch.items[2].res = "ok"
    /\ batch.result.kind = "Ok"
    /\ batch.result.processed_items >= 1
    /\ Len(batch.result.errors) >= 1

\* C10: every batch process_batch_streaming puts on the channel has at most
\* buffer_size chunks, and its buffer never holds more than buffer_size.
C10_BatchWithinBuffer ==
    /\ \A i \in 1..Len(chan) : Len(chan[i]) <= BufferSize
    /\ batch.mode = "streaming" => Len(batch.buffer) <= BufferSize

(***************************************************************************)
(* Locking discipline of process_job                                        *)
(***************************************************************************)
\* write-lock acquisitions a process_job future has made when it is at pc
LocksTaken(tk) ==
    CASE tk.pc = "start" -> IF tk.guard THEN 1 ELSE 0
      [] tk.pc = "progress" -> tk.processed + (IF tk.guard THEN 1 ELSE 0)
      [] tk.pc = "complete" -> 1 + tk.processed + (IF tk.guard THEN 1 ELSE 0)
      [] tk.pc = "done" -> 2 + tk.processed
      [] OTHER -> 1 + tk.processed

\* C11: process_job holds the store's write lock only at one of its three
\* update blocks, never while a chunker runs or a sink call is in flight
\* (so status readers can get in there), and it takes the lock once for the
\* start, once per processed item and once for the completion.
C11_LockOnlyForUpdates ==
    \A t \in DOMAIN task :
        /\ task[t].guard => task[t].pc \in LockSites
        /\ task[t].pc \in {"chunk", "fanout", "panicked", "done"} =>
                ~StoreWriteLocked
        /\ task[t].locks = LocksTaken(task[t])

C11_Witness ==
    \E t \in DOMAIN task :
        /\ task[t].pc = "fanout"
        /\ Len(task[t].items) >= 2
        /\ task[t].locks = 1 + Len(task[t].items)
        /\ \E s \in Sinks :
              SinkCalled(task[t], s) /\ ~SinkSettled(task[t], s)
        /\ response.kind = "status" /\ response.status = "Running"

\* A job record that cleanup_old_jobs may drop according to its contract:
\* terminal, and finished more than one hour ago
OlderThanOneHour(job, utc_now) ==
    /\ job.status \in {"Completed", "Failed"}
    /\ job.completed_at # <<>>
    /\ utc_now - job.completed_at[1] > OneHour

\* C12: a job leaves the store only if it is completed or failed and its
\* completed_at is more than one hour in the past (pending and running jobs
\* and jobs finished within the last hour stay), and a clean-up that removes
\* anything removes exactly those jobs.
C12_CleanupOnlyOld ==
    [][/\ \A j \in DOMAIN jobStore :
            j \notin DOMAIN jobStore' => OlderThanOneHour(jobStore[j], now)
       /\ (DOMAIN jobStore' # DOMAIN jobStore
             /\ DOMAIN jobStore' \subseteq DOMAIN jobStore)
            => \A j \in DOMAIN jobStore :
                   OlderThanOneHour(jobStore[j], now) => j \notin DOMAIN jobStore'
      ]_vars

(***************************************************************************)
(* chunkers/token_chunker.rs: TokenChunker::chunk                           *)
(* The content is its token sequence tokens[0..n); a chunk is the window     *)
(* <<start_token, end_token>> it was decoded from.                           *)
(***************************************************************************)
\* A chunker is called once per behaviour: inputs are offered while none of
\* the chunker calls has been made
NoChunkerCalled ==
    tok.pc = "idle" /\ large.pc = "idle" /\ code.pc = "idle" /\ call.pc = "idle"

Offered(inputs) == IF NoChunkerCalled THEN inputs ELSE {}

\* let step = if chunk_overlap >= chunk_size { chunk_size } else { size - overlap }
TokenStep(chunk_size, chunk_overlap) ==
    IF chunk_overlap >= chunk_size THEN chunk_size
    ELSE chunk_size - chunk_overlap

\* chunk(): the early returns for empty content / no tokens, else the locals
\* before the while loop
TokenChunkCall(n, chunk_size, chunk_overlap) ==
    /\ tok.pc = "idle"
    /\ tok' = [pc |-> IF n = 0 THEN "done" ELSE "loop",
               n |-> n, chunk_size |-> chunk_size,
               chunk_overlap |-> chunk_overlap,
               step |-> TokenStep(chunk_size, chunk_overlap),
               start_token |-> 0, chunk_index |-> 0, chunks |-> <<>>]
    /\ UNCHANGED nonTokVars

\* One iteration of `while start_token < tokens.len()`.  The chunk vector is
\* cut off at MaxTokens + 1 windows, which no run that advances can reach.
TokenWindow ==
    /\ tok.pc = "loop"
    /\ Len(tok.chunks) <= MaxTokens
    /\ LET end_token == Min(tok.start_token + tok.chunk_size, tok.n)
           chunk == [start |-> tok.start_token, end |-> end_token,
                     token_count |-> end_token - tok.start_token,
                     chunk_index |-> tok.chunk_index]
           next_start == tok.start_token + tok.step
       IN tok' = [tok EXCEPT
                    !.chunks = Append(@, chunk),
                    !.chunk_index = @ + 1,
                    !.start_token = next_start,
                    !.pc = IF end_token >= tok.n \/ ~(next_start < tok.n)
                           THEN "done" ELSE "loop"]
    /\ UNCHANGED nonTokVars

NextToken ==
    \/ \E n \in Offered(0..MaxTokens), cs \in 0..MaxChunkSize,
          ov \in 0..MaxChunkSize :
            TokenChunkCall(n, cs, ov)
    \/ TokenWindow

SpecToken == Init /\ [][NextToken]_vars

\* tokens covered by the windows emitted so far
TokensCovered == UNION {tok.chunks[k].start .. (tok.chunks[k].end - 1) :
                            k \in 1..Len(tok.chunks)}

\* C15: for every content and every chunk_size / chunk_overlap (chunk_overlap
\* >= chunk_size and chunk_size = 0 included) the window loop runs with a
\* step of at least one token, so it ends, and when it has ended the windows
\* cover every token.
C15_TokenChunkerTerminates ==
    /\ tok.pc = "loop" => tok.step >= 1 /\ Len(tok.chunks) <= tok.n
    /\ tok.pc = "done" => TokensCovered = 0..(tok.n - 1)

(***************************************************************************)
(* batch.rs: process_large_item and split_large_content                     *)
(* A content is a String: a sequence of characters, each one byte ("a",      *)
(* the newline "n") or two bytes ("E").  Offsets and lengths are in bytes;   *)
(* slicing a str off a character boundary panics.                            *)
(***************************************************************************)
Chars == {"a", "n", "E"}

RECURSIVE Bytes(_)
Bytes(chars) ==
    IF chars = <<>> THEN <<>>
    ELSE (IF Head(chars) = "E" THEN <<"E1", "E2">> ELSE <<Head(chars)>>)
         \o Bytes(Tail(chars))

Contents == {Bytes(c) : c \in SeqsUpTo(Chars, MaxContentChars)}

\* str::is_char_boundary(i), i a byte offset in 0..len
is_char_boundary(content, i) ==
    \/ i = 0
    \/ i = Len(content)
    \/ (i > 0 /\ i < Len(content) /\ content[i + 1] # "E2")

\* content[a..b] (byte offsets, b exclusive)
Slice(content, a, b) == SubSeq(content, a + 1, b)

\* search_range.rfind(pat) for pat = "\n" repeated k times: the set holds
\* the byte position of the last match, or is empty (None)
rfind(range, k) ==
    LET hits == {pos \in 0..(Len(range) - k) :
                    \A d \in 1..k : range[pos + d] = "n"}
    IN IF hits = {} THEN {}
       ELSE {CHOOSE pos \in hits : \A q \in hits : q <= pos}

\* Vec<Chunk> a chunker returns for a piece of `len` bytes: k chunks with
\* their own ordinals 0..k-1 and offsets relative to the piece
PieceChunks(item_id, len, k) ==
    [j \in 1..k |-> [item_id |-> item_id, chunk_index |-> j - 1,
                     start_index |-> ((j - 1) * len) \div k,
                     end_index |-> (j * len) \div k]]

\* process_large_item: locals before split_large_content is called
ProcessLargeItemCall(item_id, content, max_size) ==
    /\ large.pc = "idle"
    /\ Len(content) > max_size
    /\ large' = [pc |-> "split", item_id |-> item_id, content |-> content,
                 max_size |-> max_size, current_start |-> 0, pieces |-> <<>>,
                 piece_idx |-> 0, global_chunk_index |-> 0,
                 all_chunks |-> <<>>, returned |-> <<>>]
    /\ UNCHANGED nonLargeVars

\* split_large_content: one iteration of `while current_start < content.len()`.
\* The piece vector is cut off at len + 1 pieces, which no run that
\* advances can reach.
SplitPos(content, current_start, search_end) ==
    LET search_range == Slice(content, current_start, search_end)
    IN IF rfind(search_range, 2) # {}
       THEN current_start + (CHOOSE pos \in rfind(search_range, 2) : TRUE) + 2
       ELSE IF rfind(search_range, 1) # {}
       THEN current_start + (CHOOSE pos \in rfind(search_range, 1) : TRUE) + 1
       ELSE search_end

SplitLargeContentStep ==
    /\ large.pc = "split"
    /\ Len(large.pieces) <= Len(large.content)
    /\ LET content == large.content
           current_start == large.current_start
           remaining == Len(content) - current_start
           search_end == Min(current_start + large.max_size, Len(content))
           split_pos == SplitPos(content, current_start, search_end)
       IN IF ~(current_start < Len(content))
          THEN large' = [large EXCEPT !.pc = "pieces"]
          ELSE IF remaining <= large.max_size
          THEN large' = [large EXCEPT
                    !.pieces = Append(@,
                        [content |-> Slice(content, current_start, Len(content)),
                         start_offset |-> current_start]),
                    !.pc = "pieces"]
          ELSE IF ~is_char_boundary(content, search_end)
          THEN large' = [large EXCEPT !.pc = "panic"]
          ELSE large' = [large EXCEPT
                    !.pieces = Append(@,
                        [content |-> Slice(content, current_start, split_pos),
                         start_offset |-> current_start]),
                    !.current_start = split_pos]
    /\ UNCHANGED nonLargeVars

\* the Ok arm of process_large_item's match: shift offsets, renumber
Renumber_local(chunks, start_offset, global_chunk_index) ==
    [j \in 1..Len(chunks) |->
        [chunks[j] EXCEPT !.start_index = @ + start_offset,
                          !.end_index = @ + start_offset]]
Renumber(chunks, start_offset, global_chunk_index) ==
    [j \in 1..Len(chunks) |->
        [chunks[j] EXCEPT !.start_index = @ + start_offset,
                          !.end_index = @ + start_offset,
                          !.chunk_index = global_chunk_index + j - 1]]

\* process_large_item: one iteration of `for (piece_idx, piece) in pieces`;
\* outcome is what chunker.chunk(&sub_item, ..) returns
ProcessPiece(outcome) ==
    /\ large.pc = "pieces"
    /\ large.piece_idx < Len(large.pieces)
    /\ LET piece == large.pieces[large.piece_idx + 1]
           chunks == PieceChunks(large.item_id, Len(piece.content), outcome.n)
       IN IF outcome.res = "ok"
          THEN large' = [large EXCEPT
                    !.piece_idx = @ + 1,
                    !.all_chunks = @ \o Renumber(chunks, piece.start_offset,
                                                 large.global_chunk_index),
                    !.global_chunk_index = @ + Len(chunks),
                    !.returned = @ \o [j \in 1..Len(chunks) |->
                                        [piece_idx |-> large.piece_idx,
                                         chunk |-> chunks[j]]]]
          ELSE large' = [large EXCEPT !.piece_idx = @ + 1]
    /\ UNCHANGED nonLargeVars

\* Ok(all_chunks)
ProcessLargeItemReturn ==
    /\ large.pc = "pieces"
    /\ large.piece_idx = Len(large.pieces)
    /\ large' = [large EXCEPT !.pc = "done"]
    /\ UNCHANGED nonLargeVars

PieceOutcomes == [res : {"ok"}, n : 0..MaxChunksPerItem] \cup [res : {"err"}, n : {0}]

NextLarge ==
    \/ \E id \in 1..2, c \in Offered(Contents), m \in 0..MaxContentSize :
            ProcessLargeItemCall(id, c, m)
    \/ SplitLargeContentStep
    \/ \E o \in PieceOutcomes : ProcessPiece(o)
    \/ ProcessLargeItemReturn

SpecLarge == Init /\ [][NextLarge]_vars

RECURSIVE Concat(_)
Concat(pieces) ==
    IF pieces = <<>> THEN <<>>
    ELSE Head(pieces).content \o Concat(Tail(pieces))

\* C16: for any content and any max_content_size the pre-split ends, and its
\* pieces are non-empty, no longer than max_content_size, start where the
\* pieces before them end, and concatenate to the content.
C16_SplitLargeContent ==
    /\ large.pc \in {"split", "pieces", "done"} =>
        \A k \in 1..Len(large.pieces) :
            /\ large.pieces[k].content # <<>>
            /\ Len(large.pieces[k].content) <= large.max_size
            /\ large.pieces[k].start_offset =
                   Len(Concat(SubSeq(large.pieces, 1, k - 1)))
    /\ large.pc \in {"pieces", "done"} => Concat(large.pieces) = large.content
    /\ large.pc # "panic"

\* C17: the chunks process_large_item has collected carry the item's id, are
\* numbered 0..n-1 once across all pieces in piece order (pieces that failed
\* or gave no chunks leave no gap), and have the offsets their chunker
\* returned shifted by the start offset of their piece.
C17_LargeItemRenumbered ==
    large.pc \in {"pieces", "done"} =>
        /\ Len(large.all_chunks) = Len(large.returned)
        /\ \A k \in 1..Len(large.all_chunks) :
            LET c == large.all_chunks[k]
                r == large.returned[k]
                piece == large.pieces[r.piece_idx + 1]
            IN /\ c.item_id = large.item_id
               /\ c.chunk_index = k - 1
               /\ c.start_index = r.chunk.start_index + piece.start_offset
               /\ c.end_index = r.chunk.end_index + piece.start_offset
               /\ k > 1 => large.returned[k - 1].piece_idx <= r.piece_idx

\* three pieces: the first gives two chunks, the second none or an error, the
\* third a chunk numbered 2 at a shifted offset
C17_Witness ==
    /\ large.pc = "done"
    /\ Len(large.pieces) = 3
    /\ Len(large.all_chunks) = 3
    /\ large.returned[2].piece_idx = 0
    /\ large.returned[3].piece_idx = 2
    /\ large.all_chunks[3].chunk_index = 2
    /\ large.all_chunks[3].start_index > large.returned[3].chunk.start_index

(***************************************************************************)
(* chunkers/code_chunker.rs: CodeChunker                                    *)
(* A parsed file is its sequence of top-level nodes on consecutive lines.    *)
(* Node kinds: "item" is a kind listed by get_chunk_node_types, "other" any  *)
(* other kind, "comment" a comment, "wrapper" a node of another kind with    *)
(* one "item" child on the same lines.  Every line is one token.             *)
(***************************************************************************)
NodeKinds == {"item", "other", "comment", "wrapper"}
TopNodes == [kind : NodeKinds, nlines : 1..MaxNodeLines]
Asts == SeqsUpTo(TopNodes, MaxNodes)

\* get_chunk_node_types(language)
ChunkTypes == {"item"}

RECURSIVE LinesBefore(_, _)
LinesBefore(ast, i) ==
    IF i <= 1 THEN 0 ELSE ast[i - 1].nlines + LinesBefore(ast, i - 1)

NoSibling == [kind |-> "none", nlines |-> 0]

\* node.kind() of a top-level node
KindOf(top) == IF top.kind = "wrapper" THEN "other" ELSE top.kind

\* root_node.children(): the tree-sitter nodes of the file
TopLevel(ast, i) ==
    LET s == LinesBefore(ast, i) + 1
        e == LinesBefore(ast, i) + ast[i].nlines
    IN [kind |-> KindOf(ast[i]), top |-> i,
        start_line |-> s, end_line |-> e,
        prev_sibling |-> IF i > 1
                         THEN [kind |-> KindOf(ast[i - 1]),
                               nlines |-> ast[i - 1].nlines]
                         ELSE NoSibling,
        children |-> IF ast[i].kind = "wrapper"
                     THEN <<[kind |-> "item", top |-> i,
                             start_line |-> s, end_line |-> e,
                             prev_sibling |-> NoSibling, children |-> <<>>]>>
                     ELSE <<>>]

root_node(ast) ==
    [kind |-> "root", children |-> [i \in 1..Len(ast) |-> TopLevel(ast, i)]]

RECURSIVE collect_chunk_nodes(_), CollectChildren(_)
collect_chunk_nodes(node) ==
    IF node.kind \in ChunkTypes THEN <<node>>
    ELSE CollectChildren(node.children)
CollectChildren(children) ==
    IF children = <<>> THEN <<>>
    ELSE collect_chunk_nodes(Head(children)) \o CollectChildren(Tail(children))

\* find_preceding_comment: lines of the comment node right before, 0 for None
find_preceding_comment(node) ==
    IF node.prev_sibling.kind = "comment" THEN node.prev_sibling.nlines ELSE 0

\* extract_node_text: text is source[comment start .. node end], given here
\* as its number of lines; start_line / end_line are the node's own rows.
\* tops: the top-level nodes whose text is in `text`.
extract_node_text(node) ==
    [text |-> find_preceding_comment(node)
               + (node.end_line - node.start_line + 1),
     start_line |-> node.start_line, end_line |-> node.end_line,
     comment |-> find_preceding_comment(node),
     tops |-> {node.top} \cup
              (IF find_preceding_comment(node) > 0 THEN {node.top - 1} ELSE {})]

\* count_tokens of a text of n lines
count_tokens(n) == n

\* chunk_index += 1
NextIndex_stuck(chunk_index) == chunk_index
NextIndex(chunk_index) == chunk_index + 1

CodeChunk(chunk_index, start_line, end_line, tokens, tops, path, sel) ==
    [chunk_index |-> chunk_index, start_line |-> start_line,
     end_line |-> end_line, token_count |-> tokens, tops |-> tops,
     path |-> path, sel |-> sel]

\* split_large_node: the loop over text.lines(), from line i on.
\* st = [cur: lines in current_text, current_start, chunk_index, chunks]
RECURSIVE SplitLoop(_, _, _)
SplitLoop(i, st, p) ==
    IF i = p.text
    THEN IF st.cur > 0
         THEN [st EXCEPT
                 !.chunks = Append(@, CodeChunk(st.chunk_index, st.current_start,
                                p.end_line, count_tokens(st.cur), p.tops,
                                "split", p.sel)),
                 !.chunk_index = NextIndex(@)]
         ELSE st
    ELSE IF count_tokens(st.cur + 1) > p.chunk_size /\ st.cur > 0
    THEN SplitLoop(i + 1,
            [cur |-> 1, current_start |-> p.start_line + i,
             chunk_index |-> NextIndex(st.chunk_index),
             chunks |-> Append(st.chunks,
                            CodeChunk(st.chunk_index, st.current_start,
                                p.start_line + i - 1, count_tokens(st.cur),
                                p.tops, "split", p.sel))], p)
    ELSE SplitLoop(i + 1, [st EXCEPT !.cur = @ + 1], p)

split_large_node(ext, chunk_size, chunk_index, sel) ==
    SplitLoop(0,
        [cur |-> 0, current_start |-> ext.start_line,
         chunk_index |-> chunk_index, chunks |-> <<>>],
        [text |-> ext.text, start_line |-> ext.start_line,
         end_line |-> ext.end_line, chunk_size |-> chunk_size,
         tops |-> ext.tops, sel |-> sel])

RECURSIVE SumText(_)
SumText(exts) ==
    IF exts = <<>> THEN 0 ELSE Head(exts).text + SumText(Tail(exts))

create_chunk_from_nodes(nodes, chunk_index) ==
    CodeChunk(chunk_index, nodes[1].start_line, nodes[Len(nodes)].end_line,
              count_tokens(SumText(nodes)),
              UNION {nodes[k].tops : k \in 1..Len(nodes)}, "pack", 0)

\* group_nodes_into_chunks: the loop over nodes from position i on.
\* st = [current_nodes, current_tokens, chunk_index, chunks]
RECURSIVE GroupLoop(_, _, _, _)
GroupLoop(i, nodes, chunk_size, st) ==
    IF i > Len(nodes)
    THEN IF st.current_nodes # <<>>
         THEN Append(st.chunks,
                     create_chunk_from_nodes(st.current_nodes, st.chunk_index))
         ELSE st.chunks
    ELSE
      LET ext == extract_node_text(nodes[i])
          node_tokens == count_tokens(ext.text)
          flushed ==
              IF st.current_nodes # <<>>
              THEN [st EXCEPT
                      !.chunks = Append(@, create_chunk_from_nodes(
                                            st.current_nodes, st.chunk_index)),
                      !.chunk_index = NextIndex(@),
                      !.current_nodes = <<>>, !.current_tokens = 0]
              ELSE st
          large_chunks == split_large_node(ext, chunk_size,
                                           flushed.chunk_index, i)
      IN IF node_tokens > chunk_size
         THEN GroupLoop(i + 1, nodes, chunk_size,
                [flushed EXCEPT !.chunks = @ \o large_chunks.chunks,
                                !.chunk_index = large_chunks.chunk_index])
         ELSE IF st.current_tokens + node_tokens > chunk_size
         THEN GroupLoop(i + 1, nodes, chunk_size,
                [st EXCEPT
                   !.chunks = Append(@, create_chunk_from_nodes(
                                         st.current_nodes, st.chunk_index)),
                   !.chunk_index = NextIndex(@),
                   !.current_nodes = <<ext>>,
                   !.current_tokens = node_tokens])
         ELSE GroupLoop(i + 1, nodes, chunk_size,
                [st EXCEPT !.current_nodes = Append(@, ext),
                           !.current_tokens = @ + node_tokens])

group_nodes_into_chunks(nodes, chunk_size) ==
    GroupLoop(1, nodes, chunk_size,
        [current_nodes |-> <<>>, current_tokens |-> 0, chunk_index |-> 0,
         chunks |-> <<>>])

\* fallback_chunk: the loop over item.content.lines() from index i on;
\* lines is the token count of each line.
\* st = [current_lines, current_tokens, chunk_index, start_line, chunks]
RECURSIVE FallbackLoop(_, _, _, _)
FallbackLoop(i, lines, chunk_size, st) ==
    IF i = Len(lines)
    THEN IF st.current_lines > 0
         THEN Append(st.chunks,
                 CodeChunk(st.chunk_index, st.start_line, Len(lines),
                           st.current_tokens, {}, "fallback", 0))
         ELSE st.chunks
    ELSE
      LET line_tokens == lines[i + 1]
      IN IF st.current_tokens + line_tokens > chunk_size /\ st.current_lines > 0
         THEN FallbackLoop(i + 1, lines, chunk_size,
                [current_lines |-> 1, current_tokens |-> line_tokens,
                 chunk_index |-> NextIndex(st.chunk_index),
                 start_line |-> i + 1,
                 chunks |-> Append(st.chunks,
                     CodeChunk(st.chunk_index, st.start_line, i,
                               st.current_tokens, {}, "fallback", 0))])
         ELSE FallbackLoop(i + 1, lines, chunk_size,
                [st EXCEPT !.current_lines = @ + 1,
                           !.current_tokens = @ + line_tokens])

fallback_chunk(lines, chunk_size) ==
    FallbackLoop(0, lines, chunk_size,
        [current_lines |-> 0, current_tokens |-> 0, chunk_index |-> 0,
         start_line |-> 1, chunks |-> <<>>])

\* item.content.lines() as token counts: one token per line of code; a file
\* without nodes is one line of whitespace
ContentLines(item) ==
    IF item.ast = <<>> THEN <<0>>
    ELSE [k \in 1..LinesBefore(item.ast, Len(item.ast) + 1) |-> 1]

\* Items of CodeChunker::chunk.  content: "empty" or "text"; language:
\* registered with tree-sitter or not; parse: what Parser::parse returns.
CodeItems ==
    [content : {"text"}, language : {"rust", "unsupported"},
     parse : {"Some", "None"}, ast : Asts]
    \cup [content : {"empty"}, language : {"rust"}, parse : {"Some"},
          ast : {<<>>}]

\* the nodes chunk() hands to group_nodes_into_chunks
ChunkNodes(item) ==
    LET nodes == collect_chunk_nodes(root_node(item.ast))
    IN IF nodes = <<>> THEN root_node(item.ast).children ELSE nodes

\* CodeChunker::chunk -> Ok(chunks)
CodeChunker_chunk(item, chunk_size) ==
    IF item.content = "empty" THEN <<>>
    ELSE IF item.language = "unsupported"
    THEN fallback_chunk(ContentLines(item), chunk_size)
    ELSE IF item.parse = "None"
    THEN fallback_chunk(ContentLines(item), chunk_size)
    ELSE IF ChunkNodes(item) = <<>>
    THEN fallback_chunk(ContentLines(item), chunk_size)
    ELSE group_nodes_into_chunks(ChunkNodes(item), chunk_size)

CodeChunkCall(item, chunk_size) ==
    /\ code.pc = "idle"
    /\ code' = [pc |-> "done", item |-> item, chunk_size |-> chunk_size,
                parsed |-> (item.content = "text" /\ item.language = "rust"
                            /\ item.parse = "Some" /\ item.ast # <<>>),
                nodes |-> ChunkNodes(item),
                chunks |-> CodeChunker_chunk(item, chunk_size)]
    /\ UNCHANGED nonCodeVars

NextCode ==
    \E item \in Offered(CodeItems), cs \in 0..MaxChunkSize :
        CodeChunkCall(item, cs)

SpecCode == Init /\ [][NextCode]_vars

\* positions of the sub-chunks split_large_node made for node number sel
SplitOf(sel) ==
    {k \in 1..Len(code.chunks) :
        code.chunks[k].path = "split" /\ code.chunks[k].sel = sel}

\* C19: the sub-chunks of every node CodeChunker split (attached comment or
\* not) have start_line <= end_line, follow each other without gap or
\* overlap, and span exactly the node's lines.
C19_SplitLineRanges ==
    (code.pc = "done" /\ code.parsed) =>
        \A sel \in 1..Len(code.nodes) :
            LET ks == SplitOf(sel)
                first == CHOOSE k \in ks : \A q \in ks : k <= q
                last == CHOOSE k \in ks : \A q \in ks : q <= k
            IN ks # {} =>
                /\ \A k \in ks : code.chunks[k].start_line <= code.chunks[k].end_line
                /\ \A k \in ks : k # first =>
                       code.chunks[k].start_line = code.chunks[k - 1].end_line + 1
                /\ code.chunks[first].start_line = code.nodes[sel].start_line
                /\ code.chunks[last].end_line = code.nodes[sel].end_line

\* C20: after a successful parse every top-level item of the file (whatever
\* its node kind) is in the content of some chunk.
C20_NoTopLevelItemDropped ==
    (code.pc = "done" /\ code.parsed) =>
        \A i \in 1..Len(code.item.ast) :
            code.item.ast[i].kind # "comment" =>
                \E k \in 1..Len(code.chunks) : i \in code.chunks[k].tops

(***************************************************************************)
(* chunkers/agentic_chunker.rs: AgenticChunker                              *)
(* A content is its lines (content.lines()) and whether it ends with a       *)
(* newline.  Line kinds: "text", "empty" (an EmptyLine boundary), "fn" (a    *)
(* FunctionDef boundary), "use" (an import).  The token count of a text is   *)
(* the sum of the token counts of its lines.                                 *)
(***************************************************************************)
AgLines ==
    {[kind |-> "empty", tokens |-> 0], [kind |-> "fn", tokens |-> 1],
     [kind |-> "use", tokens |-> 1]}
    \cup [kind : {"text"}, tokens : 1..MaxUnitTokens]

\* "a\n" is the line "a" with a trailing newline, so a content without a
\* trailing newline does not end with an empty line
AgContents ==
    {c \in [lines : SeqsUpTo(AgLines, MaxLines), trailing_nl : BOOLEAN] :
        /\ c.lines = <<>> => ~c.trailing_nl
        /\ (c.lines # <<>> /\ c.lines[Len(c.lines)].kind = "empty")
              => c.trailing_nl}

\* line.len() in bytes
LineLen(line) == IF line.kind = "empty" THEN 0 ELSE 2

\* line_byte_offsets[k]: offset += line.len() + 1 for each line
RECURSIVE line_byte_offsets(_, _)
line_byte_offsets(lines, k) ==
    IF k = 0 THEN 0
    ELSE line_byte_offsets(lines, k - 1) + LineLen(lines[k]) + 1

\* content.len()
ContentLen(c) ==
    IF c.lines = <<>> THEN 0
    ELSE line_byte_offsets(c.lines, Len(c.lines)) - 1
         + (IF c.trailing_nl THEN 1 ELSE 0)

\* boundary_strength * 100 of classify_line's boundary types; 0 for None
boundary_strength(line) ==
    CASE line.kind = "fn" -> 80
      [] line.kind = "empty" -> 20
      [] OTHER -> 0

\* find_best_boundary over lines start_line..end_line (0-based): the
\* strongest boundary, the last one among equally strong, else end_line
find_best_boundary(lines, start_line, end_line) ==
    LET bs == {l \in start_line..end_line : boundary_strength(lines[l + 1]) > 0}
    IN IF bs = {} THEN end_line
       ELSE CHOOSE l \in bs : \A m \in bs :
                \/ boundary_strength(lines[m + 1]) < boundary_strength(lines[l + 1])
                \/ (boundary_strength(lines[m + 1]) = boundary_strength(lines[l + 1])
                    /\ m <= l)

RECURSIVE SumTokens(_, _, _)
SumTokens(lines, first, last) ==
    IF first > last THEN 0
    ELSE lines[first + 1].tokens + SumTokens(lines, first + 1, last)

\* ChunkCandidate of lines first..last (0-based)
ChunkCandidate(lines, first, last, start_byte, end_byte) ==
    [start_byte |-> start_byte, end_byte |-> end_byte,
     first |-> first, last |-> last,
     tokens |-> SumTokens(lines, first, last),
     units |-> Cardinality({l \in first..last : lines[l + 1].kind # "empty"}),
     has_code |-> \E l \in first..last : lines[l + 1].kind = "fn",
     imports |-> Cardinality({l \in first..last : lines[l + 1].kind = "use"}),
     context_before |-> 0]

\* !chunk_content.trim().is_empty()
NotBlank(lines, first, last) ==
    \E l \in first..last : lines[l + 1].kind # "empty"

\* if current_tokens >= config.chunk_size
SplitDue(current_tokens, chunk_size) == current_tokens >= chunk_size

\* split_at_boundaries: the loop over lines from line_idx on.
\* st = [current_start, current_tokens, last_split, candidates, panicked]
RECURSIVE AgLoop(_, _, _, _)
AgLoop(line_idx, st, c, chunk_size) ==
    IF st.panicked \/ line_idx = Len(c.lines) THEN st
    ELSE
      LET current_tokens == st.current_tokens + c.lines[line_idx + 1].tokens
          split_line == find_best_boundary(c.lines, st.last_split, line_idx)
          split_byte == line_byte_offsets(c.lines, split_line + 1)
      IN IF SplitDue(current_tokens, chunk_size)
         THEN IF split_byte > ContentLen(c)
              THEN [st EXCEPT !.panicked = TRUE]
              ELSE AgLoop(line_idx + 1,
                     [current_start |-> split_byte, current_tokens |-> 0,
                      last_split |-> split_line + 1,
                      candidates |->
                          IF NotBlank(c.lines, st.last_split, split_line)
                          THEN Append(st.candidates,
                                   ChunkCandidate(c.lines, st.last_split,
                                       split_line, st.current_start, split_byte))
                          ELSE st.candidates,
                      panicked |-> FALSE], c, chunk_size)
         ELSE AgLoop(line_idx + 1,
                     [st EXCEPT !.current_tokens = current_tokens],
                     c, chunk_size)

\* inject_context_into_candidates: imports of the first candidate go before
\* every later candidate that has code ("// Context:" is one token)
inject_context_into_candidates(candidates) ==
    IF Len(candidates) < 2 THEN candidates
    ELSE [k \in 1..Len(candidates) |->
            IF k > 1 /\ candidates[1].imports > 0 /\ candidates[k].has_code
            THEN [candidates[k] EXCEPT
                    !.context_before = 1 + candidates[1].imports]
            ELSE candidates[k]]

\* split_at_boundaries -> candidates, or a panic in a slice
split_at_boundaries(c, chunk_size) ==
    IF SumTokens(c.lines, 0, Len(c.lines) - 1) <= chunk_size
    THEN [panicked |-> FALSE,
          candidates |-> <<ChunkCandidate(c.lines, 0, Len(c.lines) - 1,
                                          0, ContentLen(c))>>]
    ELSE
      LET st == AgLoop(0, [current_start |-> 0, current_tokens |-> 0,
                           last_split |-> 0, candidates |-> <<>>,
                           panicked |-> FALSE], c, chunk_size)
          final ==
              IF st.current_start < ContentLen(c)
                 /\ NotBlank(c.lines, st.last_split, Len(c.lines) - 1)
              THEN Append(st.candidates,
                       ChunkCandidate(c.lines, st.last_split, Len(c.lines) - 1,
                                      st.current_start, ContentLen(c)))
              ELSE st.candidates
      IN IF st.panicked THEN [panicked |-> TRUE, candidates |-> <<>>]
         ELSE [panicked |-> FALSE,
               candidates |-> inject_context_into_candidates(final)]

\* AgenticChunker::chunk
AgenticChunker_chunk(c, chunk_size) ==
    IF ContentLen(c) = 0 THEN [result |-> "Ok", chunks |-> <<>>]
    ELSE
      LET split == split_at_boundaries(c, chunk_size)
      IN IF split.panicked THEN [result |-> "panic", chunks |-> <<>>]
         ELSE [result |-> "Ok",
               chunks |-> [k \in 1..Len(split.candidates) |->
                   [chunk_index |-> k - 1,
                    token_count |-> split.candidates[k].context_before
                                    + split.candidates[k].tokens,
                    units |-> split.candidates[k].units,
                    start_index |-> split.candidates[k].start_byte,
                    end_index |-> split.candidates[k].end_byte]]]

AgenticChunkCall(c, chunk_size) ==
    /\ call.pc = "idle"
    /\ call' = [pc |-> "done", chunker |-> "agentic", item |-> c,
                empty |-> (ContentLen(c) = 0), chunk_size |-> chunk_size,
                result |-> AgenticChunker_chunk(c, chunk_size).result,
                chunks |-> AgenticChunker_chunk(c, chunk_size).chunks]
    /\ UNCHANGED nonCallVars

NextAgentic ==
    \E c \in Offered(AgContents), cs \in 0..MaxChunkSize :
        AgenticChunkCall(c, cs)

SpecAgentic == Init /\ [][NextAgentic]_vars

\* C13: a chunk a chunker emits has at most chunk_size tokens unless it is
\* one atomic unit (a single line here) that is by itself over chunk_size.
C13_TokenBound ==
    (call.pc = "done" /\ call.result = "Ok") =>
        \A k \in 1..Len(call.chunks) :
            \/ call.chunks[k].token_count <= call.chunk_size
            \/ call.chunks[k].units = 1

\* C14: for non-empty content chunk() returns Ok (no error, no panic) with
\* at least one chunk.
C14_NonEmptyResult ==
    (call.pc = "done" /\ ~call.empty) =>
        /\ call.result = "Ok"
        /\ call.chunks # <<>>

\* C28: for a content with more tokens than chunk_size the call returns
\* normally (no slice past the end of the content) and the chunks' byte
\* ranges satisfy start_index <= end_index <= len(content), each chunk
\* starting at or after the end of the chunk before it.
C28_ByteRanges ==
    (call.pc = "done" /\ call.chunker = "agentic"
     /\ SumTokens(call.item.lines, 0, Len(call.item.lines) - 1) > call.chunk_size)
    =>
        /\ call.result = "Ok"
        /\ \A k \in 1..Len(call.chunks) :
              /\ call.chunks[k].start_index <= call.chunks[k].end_index
              /\ call.chunks[k].end_index <= ContentLen(call.item)
              /\ k > 1 => call.chunks[k - 1].end_index <= call.chunks[k].start_index

(***************************************************************************)
(* chunkers/ticketing_chunker.rs: TicketingChunker::chunk                   *)
(* A parsed ticket: description is <<>> (None) or the token counts of the    *)
(* pieces of header + description split at ". " (an empty piece has 0        *)
(* tokens); comments are the token counts of the comments.                   *)
(***************************************************************************)
TicketItems ==
    [content : {"text"},
     description : SeqsUpTo(0..MaxUnitTokens, MaxLines),
     comments : SeqsUpTo(1..MaxUnitTokens, MaxChunksPerItem)]
    \cup [content : {"empty"}, description : {<<>>}, comments : {<<>>}]

RECURSIVE Sum(_)
Sum(ns) == IF ns = <<>> THEN 0 ELSE Head(ns) + Sum(Tail(ns))

TicketChunk(chunk_index, tokens, content_type) ==
    [chunk_index |-> chunk_index, token_count |-> tokens,
     content_type |-> content_type]

\* the loop over full_content.split(". ") from sentence i on, then the rest.
\* st = [text: current_text is not empty, current_tokens, chunk_index, chunks]
RECURSIVE DescriptionLoop(_, _, _, _)
DescriptionLoop(i, sentences, chunk_size, st) ==
    IF i > Len(sentences)
    THEN IF st.text
         THEN [st EXCEPT
                 !.chunks = Append(@, TicketChunk(st.chunk_index,
                                          st.current_tokens, "description")),
                 !.chunk_index = NextIndex(@)]
         ELSE st
    ELSE
      LET sent_tokens == sentences[i]
      IN IF st.current_tokens + sent_tokens > chunk_size /\ st.text
         THEN DescriptionLoop(i + 1, sentences, chunk_size,
                [text |-> sent_tokens > 0, current_tokens |-> sent_tokens,
                 chunk_index |-> NextIndex(st.chunk_index),
                 chunks |-> Append(st.chunks, TicketChunk(st.chunk_index,
                                       st.current_tokens, "description"))])
         ELSE DescriptionLoop(i + 1, sentences, chunk_size,
                [st EXCEPT !.text = @ \/ sent_tokens > 0,
                           !.current_tokens = @ + sent_tokens])

\* if let Some(desc) = format_description(..)
DescriptionChunks(item, chunk_size) ==
    LET st0 == [text |-> FALSE, current_tokens |-> 0, chunk_index |-> 0,
                chunks |-> <<>>]
    IN IF item.description = <<>> THEN st0
       ELSE IF Sum(item.description) <= chunk_size
       THEN [st0 EXCEPT
               !.chunks = <<TicketChunk(0, Sum(item.description), "description")>>,
               !.chunk_index = NextIndex(@)]
       ELSE DescriptionLoop(1, item.description, chunk_size, st0)

\* if self.separate_comments && !ticket.comments.is_empty(); the
\* "## Comments" heading of format_comments is one token
CommentChunks(item, chunk_size, chunk_index) ==
    IF item.comments = <<>> THEN <<>>
    ELSE IF 1 + Sum(item.comments) <= chunk_size
    THEN <<TicketChunk(chunk_index, 1 + Sum(item.comments), "comments")>>
    ELSE [k \in 1..Len(item.comments) |->
            TicketChunk(chunk_index + k - 1, item.comments[k], "comment")]

\* TicketingChunker::chunk -> Ok(chunks)
TicketingChunker_chunk(item, chunk_size) ==
    IF item.content = "empty" THEN <<>>
    ELSE
      LET desc == DescriptionChunks(item, chunk_size)
          chunks == desc.chunks
                    \o CommentChunks(item, chunk_size, desc.chunk_index)
      IN IF chunks = <<>>
         THEN <<TicketChunk(0, 1, "text")>>
         ELSE chunks

TicketingChunkCall(item, chunk_size) ==
    /\ call.pc = "idle"
    /\ call' = [pc |-> "done", chunker |-> "ticketing", item |-> item,
                empty |-> (item.content = "empty"), chunk_size |-> chunk_size,
                result |-> "Ok",
                chunks |-> TicketingChunker_chunk(item, chunk_size)]
    /\ UNCHANGED nonCallVars

(***************************************************************************)
(* SpecChunkers: one chunk() call of one of the chunkers                    *)
(***************************************************************************)
NextChunkers ==
    \/ \E item \in Offered(CodeItems), cs \in 0..MaxChunkSize :
            CodeChunkCall(item, cs)
    \/ \E item \in Offered(TicketItems), cs \in 0..MaxChunkSize :
            TicketingChunkCall(item, cs)
    \/ \E c \in Offered(AgContents), cs \in 0..MaxChunkSize :
            AgenticChunkCall(c, cs)
    \/ \E n \in Offered(0..MaxTokens), cs \in 0..MaxChunkSize,
          ov \in 0..MaxChunkSize :
            TokenChunkCall(n, cs, ov)
    \/ TokenWindow

SpecChunkers == Init /\ [][NextChunkers]_vars

\* chunk_index of the k-th chunk is k - 1
Dense(chunks) == \A k \in 1..Len(chunks) : chunks[k].chunk_index = k - 1

DocLines ==
    {[kind |-> "heading", tokens |-> 1], [kind |-> "blank", tokens |-> 0],
     [kind |-> "fence", tokens |-> 1]}
    \cup [kind : {"text"}, tokens : 1..MaxUnitTokens]

DocContents == SeqsUpTo(DocLines, MaxLines)

header_prefix == [kind |-> "prefix", tokens |-> 1]

\* count_tokens of a text made of these lines
RECURSIVE DocTokens(_)
DocTokens(text) ==
    IF text = <<>> THEN 0 ELSE Head(text).tokens + DocTokens(Tail(text))

\* content.trim().is_empty()
TrimIsEmpty(text) == \A k \in 1..Len(text) : text[k].kind = "blank"

\* split_by_headings: the loop over content.lines()
\* st = [sections, current_section, in_code_block]
RECURSIVE HeadingLoop(_, _)
HeadingLoop(lines, st) ==
    IF lines = <<>> THEN st
    ELSE
      LET line == Head(lines)
          in_code_block == IF line.kind = "fence" THEN ~st.in_code_block
                           ELSE st.in_code_block
      IN IF ~in_code_block /\ line.kind = "heading"
         THEN HeadingLoop(Tail(lines),
                  [sections |-> IF ~TrimIsEmpty(st.current_section.content)
                                THEN Append(st.sections, st.current_section)
                                ELSE st.sections,
                   current_section |-> [heading |-> TRUE, content |-> <<line>>],
                   in_code_block |-> in_code_block])
         ELSE HeadingLoop(Tail(lines),
                  [st EXCEPT
                     !.current_section.content = Append(@, line),
                     !.in_code_block = in_code_block])

split_by_headings(lines) ==
    LET st == HeadingLoop(lines,
                  [sections |-> <<>>,
                   current_section |-> [heading |-> FALSE, content |-> <<>>],
                   in_code_block |-> FALSE])
    IN IF ~TrimIsEmpty(st.current_section.content)
       THEN Append(st.sections, st.current_section)
       ELSE st.sections

\* split_by_paragraphs: split("\n\n"), trim, drop the empty ones: the
\* maximal runs of lines that are not blank
RECURSIVE ParagraphLoop(_, _, _)
ParagraphLoop(text, current, paragraphs) ==
    IF text = <<>>
    THEN IF current = <<>> THEN paragraphs ELSE Append(paragraphs, current)
    ELSE IF Head(text).kind = "blank"
         THEN ParagraphLoop(Tail(text), <<>>,
                  IF current = <<>> THEN paragraphs
                  ELSE Append(paragraphs, current))
         ELSE ParagraphLoop(Tail(text), Append(current, Head(text)), paragraphs)

split_by_paragraphs(text) == ParagraphLoop(text, <<>>, <<>>)

\* split_by_sentences: cut after '.', '!' or '?'; only a "text" line ends
\* with one, so a heading or fence line runs into the sentence after it
RECURSIVE SentenceLoop(_, _, _)
SentenceLoop(text, current, sentences) ==
    IF text = <<>>
    THEN IF current = <<>> THEN sentences ELSE Append(sentences, current)
    ELSE IF Head(text).kind = "text"
         THEN SentenceLoop(Tail(text), <<>>,
                  Append(sentences, Append(current, Head(text))))
         ELSE SentenceLoop(Tail(text), Append(current, Head(text)), sentences)

split_by_sentences(text) == SentenceLoop(text, <<>>, <<>>)

\* split_section: the loop over the sentences of an over-budget paragraph
\* st = [chunks, current_chunk, current_tokens]
RECURSIVE DocSentenceLoop(_, _, _)
DocSentenceLoop(sentences, st, chunk_size) ==
    IF sentences = <<>> THEN st
    ELSE
      LET sent_tokens == DocTokens(Head(sentences))
          flushed ==
              IF st.current_tokens + sent_tokens > chunk_size
                 /\ st.current_chunk # <<>>
              THEN [chunks |-> Append(st.chunks, st.current_chunk),
                    current_chunk |-> <<>>, current_tokens |-> 0]
              ELSE st
      IN DocSentenceLoop(Tail(sentences),
             [chunks |-> flushed.chunks,
              current_chunk |-> flushed.current_chunk \o Head(sentences),
              current_tokens |-> flushed.current_tokens + sent_tokens],
             chunk_size)

\* split_section: the loop over the paragraphs
RECURSIVE DocParagraphLoop(_, _, _)
DocParagraphLoop(paragraphs, st, chunk_size) ==
    IF paragraphs = <<>> THEN st
    ELSE
      LET para == Head(paragraphs)
          para_tokens == DocTokens(para)
          flushed ==
              IF st.current_chunk # <<>>
              THEN [chunks |-> Append(st.chunks, st.current_chunk),
                    current_chunk |-> <<>>, current_tokens |-> 0]
              ELSE st
      IN DocParagraphLoop(Tail(paragraphs),
             IF para_tokens > chunk_size
             THEN DocSentenceLoop(split_by_sentences(para), flushed, chunk_size)
             ELSE IF st.current_tokens + para_tokens > chunk_size
             THEN [chunks |-> Append(st.chunks, st.current_chunk),
                   current_chunk |-> para, current_tokens |-> para_tokens]
             ELSE [st EXCEPT !.current_chunk = @ \o para,
                             !.current_tokens = @ + para_tokens],
             chunk_size)

\* "Prepend header to first chunk if we split"
PrependHeader(section, chunks) ==
    IF section.heading /\ chunks # <<>>
    THEN [chunks EXCEPT ![1] = <<header_prefix>> \o @]
    ELSE chunks

\* split_section -> the texts of the sub-chunks
split_section(section, chunk_size) ==
    IF DocTokens(section.content) <= chunk_size
    THEN <<section.content>>
    ELSE
      LET st == DocParagraphLoop(split_by_paragraphs(section.content),
                    [chunks |-> <<>>, current_chunk |-> <<>>,
                     current_tokens |-> 0], chunk_size)
          chunks == IF st.current_chunk # <<>>
                    THEN Append(st.chunks, st.current_chunk)
                    ELSE st.chunks
      IN PrependHeader(section, chunks)

\* DocumentChunker::chunk: the loop over the sections
RECURSIVE DocSectionLoop(_, _, _, _)
DocSectionLoop(sections, k, chunks, chunk_size) ==
    IF k > Len(sections) THEN chunks
    ELSE
      LET section_chunks == split_section(sections[k], chunk_size)
      IN DocSectionLoop(sections, k + 1,
             chunks \o [j \in 1..Len(section_chunks) |->
                 [chunk_index |-> Len(chunks) + j - 1,
                  token_count |-> DocTokens(section_chunks[j]),
                  text |-> section_chunks[j],
                  section |-> k,
                  heading |-> sections[k].heading,
                  split |-> DocTokens(sections[k].content) > chunk_size]],
             chunk_size)

DocumentChunker_chunk(lines, chunk_size) ==
    IF lines = <<>> THEN <<>>
    ELSE DocSectionLoop(split_by_headings(lines), 1, <<>>, chunk_size)

DocumentChunkCall(lines, chunk_size) ==
    /\ call.pc = "idle"
    /\ call' = [pc |-> "done", chunker |-> "document", item |-> lines,
                empty |-> (lines = <<>>), chunk_size |-> chunk_size,
                result |-> "Ok",
                chunks |-> DocumentChunker_chunk(lines, chunk_size)]
    /\ UNCHANGED nonCallVars

NextDocument ==
    \E lines \in Offered(DocContents), cs \in 0..MaxChunkSize :
        DocumentChunkCall(lines, cs)

SpecDocument == Init /\ [][NextDocument]_vars

\* the heading line, as it stands in the content or as the prefix writes it
IsHeadingLine(line) == line.kind \in {"heading", "prefix"}

HeadingLines(text) ==
    Cardinality({k \in 1..Len(text) : IsHeadingLine(text[k])})

\* the sub-chunks (positions in call.chunks) of section s
SubChunks(s) == {k \in 1..Len(call.chunks) : call.chunks[k].section = s}

\* C21: when a section with a heading is split into several sub-chunks, the
\* first sub-chunk starts with the heading line and the heading line occurs
\* exactly once in the sub-chunks of that section (once in the first, never
\* in a later one).
C21_HeadingOnce ==
    (call.pc = "done" /\ call.chunker = "document") =>
        \A k \in 1..Len(call.chunks) :
            LET c == call.chunks[k]
                first == \A j \in SubChunks(c.section) : k <= j
            IN (c.heading /\ c.split /\ Cardinality(SubChunks(c.section)) > 1)
               => IF first
                  THEN IsHeadingLine(c.text[1]) /\ HeadingLines(c.text) = 1
                  ELSE HeadingLines(c.text) = 0

(***************************************************************************)
(* chunkers/table_chunker.rs: TableChunker                                  *)
(* A content is its lines; of a line the chunker looks at whether it         *)
(* starts with '|' (pipe), whether it contains '-' (dash) and its tokens.    *)
(* A chunk is the positions (1-based) of the lines it was built from.        *)
(***************************************************************************)
TableLines == [pipe : BOOLEAN, dash : BOOLEAN, tokens : 1..MaxUnitTokens]

TableContents == SeqsUpTo(TableLines, MaxRows + 2)

\* lines.iter().position(pred), 0 for None
Position(lines, pred(_)) ==
    IF \E k \in 1..Len(lines) : pred(lines[k])
    THEN CHOOSE k \in 1..Len(lines) :
             pred(lines[k]) /\ \A j \in 1..(k - 1) : ~pred(lines[j])
    ELSE 0

\* the increasing sequence of the members of a set of positions
RECURSIVE SortedSeq(_)
SortedSeq(S) ==
    IF S = {} THEN <<>>
    ELSE LET m == CHOOSE x \in S : \A y \in S : x <= y
         IN <<m>> \o SortedSeq(S \ {m})

\* parse_markdown_table -> [some, header, separator, data_rows]
parse_markdown_table(lines) ==
    LET StartsWithPipe(l) == l.pipe
        IsSeparator(l) == l.pipe /\ l.dash
        header_idx == Position(lines, StartsWithPipe)
        sep_idx == Position(lines, IsSeparator)
        data_rows == SortedSeq({k \in (sep_idx + 1)..Len(lines) : lines[k].pipe})
    IN IF Len(lines) < 3 \/ header_idx = 0 \/ sep_idx = 0 \/ data_rows = <<>>
       THEN [some |-> FALSE]
       ELSE [some |-> TRUE, header |-> header_idx, separator |-> sep_idx,
             data_rows |-> data_rows]

\* parse_csv -> [some, header, data_rows]
parse_csv(lines) ==
    IF Len(lines) < 2 THEN [some |-> FALSE]
    ELSE [some |-> TRUE, header |-> 1, separator |-> 0,
          data_rows |-> [k \in 1..(Len(lines) - 1) |-> k + 1]]

is_markdown_table(lines) == lines # <<>> /\ lines[1].pipe

\* config.chunk_size.saturating_sub(header_tokens)
saturating_sub(a, b) == IF a >= b THEN a - b ELSE 0

TableChunk(chunk_index, header, separator, rows, tokens) ==
    [chunk_index |-> chunk_index, header |-> header, separator |-> separator,
     rows |-> rows, token_count |-> tokens]

\* chunk_markdown_table / chunk_csv: the loop over data_rows
\* st = [chunks, current_rows, current_tokens]
RECURSIVE TableLoop(_, _, _, _, _, _)
TableLoop(lines, rows, st, header, separator, limits) ==
    IF rows = <<>> THEN st
    ELSE
      LET row == Head(rows)
          row_tokens == lines[row].tokens
      IN TableLoop(lines, Tail(rows),
             IF st.current_tokens + row_tokens > limits.max_tokens_for_rows
                /\ st.current_rows # <<>>
             THEN [chunks |-> Append(st.chunks,
                       TableChunk(Len(st.chunks), header, separator,
                           st.current_rows,
                           limits.header_tokens + st.current_tokens)),
                   current_rows |-> <<row>>,
                   current_tokens |-> row_tokens]
             ELSE [st EXCEPT !.current_rows = Append(@, row),
                             !.current_tokens = @ + row_tokens],
             header, separator, limits)

\* chunk_markdown_table (separator > 0) / chunk_csv (separator = 0)
chunk_table(lines, header, separator, data_rows, chunk_size) ==
    LET header_tokens == lines[header].tokens
                         + (IF separator > 0 THEN lines[separator].tokens ELSE 0)
        limits == [header_tokens |-> header_tokens,
                   max_tokens_for_rows |-> saturating_sub(chunk_size, header_tokens)]
        st == TableLoop(lines, data_rows,
                  [chunks |-> <<>>, current_rows |-> <<>>, current_tokens |-> 0],
                  header, separator, limits)
    IN IF st.current_rows # <<>>
       THEN Append(st.chunks,
                TableChunk(Len(st.chunks), header, separator, st.current_rows,
                           header_tokens + st.current_tokens))
       ELSE st.chunks

\* TableChunker::chunk; the fallback chunk is the whole content
TableChunker_chunk(lines, chunk_size) ==
    LET md == parse_markdown_table(lines)
        csv == parse_csv(lines)
        fallback == <<[chunk_index |-> 0, header |-> 0, separator |-> 0,
                       rows |-> [k \in 1..Len(lines) |-> k],
                       token_count |-> Sum([k \in 1..Len(lines) |-> lines[k].tokens])]>>
    IN IF lines = <<>> THEN <<>>
       ELSE IF is_markdown_table(lines)
       THEN IF md.some
            THEN chunk_table(lines, md.header, md.separator, md.data_rows, chunk_size)
            ELSE fallback
       ELSE IF csv.some
            THEN chunk_table(lines, csv.header, 0, csv.data_rows, chunk_size)
            ELSE fallback

TableChunkCall(lines, chunk_size) ==
    /\ call.pc = "idle"
    /\ call' = [pc |-> "done", chunker |-> "table", item |-> lines,
                empty |-> (lines = <<>>), chunk_size |-> chunk_size,
                result |-> "Ok",
                chunks |-> TableChunker_chunk(lines, chunk_size)]
    /\ UNCHANGED nonCallVars

NextTable ==
    \E lines \in Offered(TableContents), cs \in 0..MaxChunkSize :
        TableChunkCall(lines, cs)

SpecTable == Init /\ [][NextTable]_vars

\* a markdown table with at least one data row: header line, separator
\* line, then the data rows
IsMarkdownTable(lines) ==
    /\ Len(lines) >= 3
    /\ \A k \in 1..Len(lines) : lines[k].pipe
    /\ lines[2].dash

\* a CSV with at least one data row: header line, then the data rows
IsCsv(lines) == Len(lines) >= 2 /\ \A k \in 1..Len(lines) : ~lines[k].pipe

\* the data rows of all chunks, in emission order
RECURSIVE AllRows(_)
AllRows(chunks) ==
    IF chunks = <<>> THEN <<>> ELSE Head(chunks).rows \o AllRows(Tail(chunks))

\* C22: for a CSV or markdown table with at least one data row every chunk
\* begins with the header line (and, for markdown, the separator line) of
\* the table, and the data rows of the chunks, read in order, are the data
\* rows of the input, each once.
C22_HeaderRepeated ==
    (call.pc = "done" /\ call.chunker = "table") =>
        /\ IsMarkdownTable(call.item) =>
             /\ \A k \in 1..Len(call.chunks) :
                    call.chunks[k].header = 1 /\ call.chunks[k].separator = 2
             /\ AllRows(call.chunks) = [k \in 1..(Len(call.item) - 2) |-> k + 2]
        /\ IsCsv(call.item) =>
             /\ \A k \in 1..Len(call.chunks) :
                    call.chunks[k].header = 1 /\ call.chunks[k].separator = 0
             /\ AllRows(call.chunks) = [k \in 1..(Len(call.item) - 1) |-> k + 1]

(***************************************************************************)
(* router/mod.rs: ChunkingRouter::get_chunker                               *)
(* A content-type string is the sequence of the segments it is written       *)
(* from, e.g. <<"text/code:", "plain">> or <<"application/", "json">>.       *)
(***************************************************************************)
Segments ==
    {"text/code:", "text/", "application/", "x-source", "markdown",
     "x-markdown", "json", "chat", "csv", "table", "plain"}

ContentTypes == SeqsUpTo(Segments, MaxSegments)

SourceKinds ==
    {"CodeRepo", "Document", "Wiki", "Chat", "Email", "Ticketing", "Web", "Other"}

RouteItems == [source_kind : SourceKinds, content_type : ContentTypes]

\* content_type.starts_with(pat)
starts_with(content_type, pat) ==
    content_type # <<>> /\ content_type[1] = pat

\* content_type.contains(pat): pat is a segment, or is inside one
contains(content_type, pat) ==
    \E k \in 1..Len(content_type) :
        \/ content_type[k] = pat
        \/ content_type[k] = "x-markdown" /\ pat = "markdown"

\* match_content_type -> the chunker's name(), "None" for None
match_content_type(content_type) ==
    IF starts_with(content_type, "text/code:") \/ contains(content_type, "x-source")
    THEN "code"
    ELSE IF contains(content_type, "markdown") \/ contains(content_type, "x-markdown")
    THEN "document"
    ELSE IF contains(content_type, "json") /\ contains(content_type, "chat")
    THEN "chat"
    ELSE IF contains(content_type, "csv") \/ contains(content_type, "table")
    THEN "table"
    ELSE "None"

\* the match on item.source_kind
SourceKindChunker(source_kind) ==
    CASE source_kind = "CodeRepo" -> "code"
      [] source_kind = "Document" -> "document"
      [] source_kind = "Wiki" -> "document"
      [] source_kind = "Chat" -> "chat"
      [] source_kind = "Email" -> "chat"
      [] source_kind = "Ticketing" -> "ticketing"
      [] source_kind = "Web" -> "recursive"
      [] source_kind = "Other" -> "sentence"

get_chunker_kind_first(item) == SourceKindChunker(item.source_kind)

get_chunker(item) ==
    IF match_content_type(item.content_type) # "None"
    THEN match_content_type(item.content_type)
    ELSE SourceKindChunker(item.source_kind)

GetChunkerCall(item) ==
    /\ route.pc = "idle"
    /\ route' = [pc |-> "done", item |-> item, chunker |-> get_chunker(item)]
    /\ UNCHANGED nonRouteVars

\* the arguments of a call that is made once
OfferedWhen(idle, inputs) == IF idle THEN inputs ELSE {}

NextRoute ==
    \E item \in OfferedWhen(route.pc = "idle", RouteItems) : GetChunkerCall(item)

SpecRoute == Init /\ [][NextRoute]_vars

\* the override patterns of the routing rules, on the routed item
CodeType ==
    starts_with(route.item.content_type, "text/code:")
    \/ contains(route.item.content_type, "x-source")
MarkdownType == contains(route.item.content_type, "markdown")
ChatJsonType ==
    contains(route.item.content_type, "json")
    /\ contains(route.item.content_type, "chat")
TableType ==
    contains(route.item.content_type, "csv")
    \/ contains(route.item.content_type, "table")

SinkClients ==
    [kind : {"embedding"}, enabled : {TRUE}, batch_size : 1..BatchSize]
    \cup [kind : {"graph"}, enabled : BOOLEAN, batch_size : 1..BatchSize]

\* send_chunks up to the loop: the early returns or the first slice
SendChunksCall(client, n) ==
    /\ sink.pc = "idle"
    /\ sink' = [pc |-> IF ~client.enabled \/ n = 0 THEN "done" ELSE "loop",
                client |-> client, chunks |-> [k \in 1..n |-> k],
                pos |-> 0, requests |-> <<>>, total |-> 0, errors |-> 0,
                result |-> IF ~client.enabled \/ n = 0 THEN "Ok" ELSE "None"]
    /\ UNCHANGED nonSinkVars

\* where the loop goes on after a slice: the Err arm only logs
NextSlice_abort(s, ok) ==
    IF ok THEN s.pos + s.client.batch_size ELSE Len(s.chunks)

NextSlice(s, ok) == s.pos + s.client.batch_size

\* one iteration of `for batch in chunks.chunks(self.batch_size)`:
\* send_batch answers Ok(count) or Err
SendBatchStep(ok, count) ==
    /\ sink.pc = "loop"
    /\ sink.pos < Len(sink.chunks)
    /\ LET slice == chunks_slice(sink.chunks, sink.pos, sink.client.batch_size)
       IN /\ count <= Len(slice)
          /\ ~ok => count = 0
          /\ sink' = [sink EXCEPT
                 !.pos = NextSlice(sink, ok),
                 !.requests = Append(@, [slice |-> slice, ok |-> ok,
                                         count |-> count]),
                 !.total = IF ok THEN @ + count ELSE @,
                 !.errors = IF ok \/ sink.client.kind = "embedding"
                            THEN @ ELSE @ + 1]
    /\ UNCHANGED nonSinkVars

\* the loop is over: Ok(total_embedded) / Ok(total_response)
SendChunksReturn ==
    /\ sink.pc = "loop"
    /\ sink.pos >= Len(sink.chunks)
    /\ sink' = [sink EXCEPT !.pc = "done", !.result = "Ok"]
    /\ UNCHANGED nonSinkVars

NextSink ==
    \/ \E client \in OfferedWhen(sink.pc = "idle", SinkClients),
          n \in 0..MaxSinkChunks :
            SendChunksCall(client, n)
    \/ \E ok \in BOOLEAN, count \in 0..BatchSize : SendBatchStep(ok, count)
    \/ SendChunksReturn

SpecSink == Init /\ [][NextSink]_vars

\* the chunks of the requests sent so far, in the order sent
RECURSIVE Posted(_)
Posted(requests) ==
    IF requests = <<>> THEN <<>>
    ELSE Head(requests).slice \o Posted(Tail(requests))

\* the counts answered by the successful requests, added up
RECURSIVE Aggregate(_)
Aggregate(requests) ==
    IF requests = <<>> THEN 0
    ELSE (IF Head(requests).ok THEN Head(requests).count ELSE 0)
         + Aggregate(Tail(requests))

\* C24: on an enabled client the requests carry consecutive slices of at
\* most batch_size chunks, in order, each chunk in exactly one request;
\* every slice is sent whether or not an earlier one failed, and the call
\* returns Ok with the aggregate of the successful slices.
C24_SlicesSentOnce ==
    (sink.pc # "idle" /\ sink.client.enabled) =>
        /\ \A k \in 1..Len(sink.requests) :
              /\ Len(sink.requests[k].slice) \in 1..sink.client.batch_size
              /\ k < Len(sink.requests)
                    => Len(sink.requests[k].slice) = sink.client.batch_size
        /\ Posted(sink.requests)
              = SubSeq(sink.chunks, 1, Len(Posted(sink.requests)))
        /\ sink.total = Aggregate(sink.requests)
        /\ sink.pc = "done" =>
              /\ Posted(sink.requests) = sink.chunks
              /\ sink.result = "Ok"

\* the first slice failed and the last, shorter slice was still sent and
\* counted
C24_Witness ==
    /\ sink.pc = "done"
    /\ sink.client.enabled
    /\ Len(sink.requests) = 2
    /\ ~sink.requests[1].ok
    /\ sink.requests[2].ok
    /\ Len(sink.requests[2].slice) < sink.client.batch_size
    /\ sink.total = 1

(***************************************************************************)
(* enrichment/context_builder.rs: ContextBuilder::build_prefix              *)
(* A string is its length in bytes and the byte offsets inside it that are   *)
(* not char boundaries (`inner`, empty for ASCII).  The builder is the       *)
(* default one with max_prefix_length set; the context has a file path, a    *)
(* language, a scope and dependencies (no repository, definitions or         *)
(* documentation).                                                           *)
(***************************************************************************)
Str(len) == [len |-> len, inner |-> {}]

\* a path of one two-byte character
NonAsciiPath == [len |-> 2, inner |-> {1}]

\* lengths of a dependency name
DepLens == {1, 60}

ChunkContexts ==
    [file_path : {Str(n) : n \in 0..MaxPathLen} \cup {NonAsciiPath},
     language : {Str(0), Str(2)},
     scope : {Str(0), Str(1)},
     dependencies : SeqsUpTo(DepLens, MaxDeps)]

\* a - b on usize: a debug build panics on underflow, a release build wraps,
\* and then the number is 2^64 + value
usize_sub(a, b, build) ==
    IF a >= b THEN [panic |-> FALSE, wrapped |-> FALSE, value |-> a - b]
    ELSE IF build = "debug"
         THEN [panic |-> TRUE, wrapped |-> FALSE, value |-> a - b]
         ELSE [panic |-> FALSE, wrapped |-> TRUE, value |-> a - b]

\* number of decimal digits of a usize as format!("{}") writes it
Digits(n) ==
    IF n.wrapped THEN 20 ELSE IF n.value < 10 THEN 1 ELSE 2

\* strs.join(", ").len()
RECURSIVE JoinLen(_)
JoinLen(lens) ==
    IF lens = <<>> THEN 0
    ELSE IF Len(lens) = 1 THEN lens[1]
    ELSE Head(lens) + 2 + JoinLen(Tail(lens))

\* iter().take(k)
Take(s, k) == SubSeq(s, 1, IF Len(s) < k THEN Len(s) ELSE k)

\* the "# Dependencies: .." part: [listed, more, line]
DependenciesPart(dependencies, build) ==
    LET deps_len == JoinLen(dependencies)
        truncated == Take(dependencies, DepsShown)
        more == usize_sub(Len(dependencies), DepsShown, build)
    IN IF deps_len <= DepsFlatLimit
       THEN [truncated |-> FALSE, listed |-> Len(dependencies),
             more |-> [panic |-> FALSE, wrapped |-> FALSE, value |-> 0],
             line |-> Str(16 + deps_len)]
       ELSE [truncated |-> TRUE, listed |-> Len(truncated), more |-> more,
             line |-> Str(16 + JoinLen(truncated) + 3 + Digits(more) + 6)]

\* a and b with `sep` bytes between them
StrJoin(a, b, sep) ==
    [len |-> a.len + sep + b.len,
     inner |-> a.inner \cup {a.len + sep + i : i \in b.inner}]

\* parts of the prefix, in the order they are pushed
Parts(context, build) ==
    <<StrJoin(Str(8), context.file_path, 0)>>
    \o (IF context.language.len > 0
        THEN <<StrJoin(Str(12), context.language, 0)>> ELSE <<>>)
    \o (IF context.scope.len > 0
        THEN <<StrJoin(Str(9), context.scope, 0)>> ELSE <<>>)
    \o (IF context.dependencies # <<>>
        THEN <<DependenciesPart(context.dependencies, build).line>> ELSE <<>>)

\* parts.join("\n")
RECURSIVE JoinLines(_)
JoinLines(parts) ==
    IF Len(parts) = 1 THEN parts[1]
    ELSE StrJoin(JoinLines(SubSeq(parts, 1, Len(parts) - 1)),
                 parts[Len(parts)], 1)

\* byte offsets of the '\n' bytes of parts.join("\n")
NewlineOffsets(parts) ==
    {JoinLines(SubSeq(parts, 1, k)).len : k \in 1..(Len(parts) - 1)}

\* "Truncate if too long": the length of the prefix returned, or a panic
\* when max_prefix_length is not a char boundary
Truncate(parts, max_prefix_length) ==
    LET full == JoinLines(parts)
        newlines == {p \in NewlineOffsets(parts) : p < max_prefix_length}
    IN IF full.len > max_prefix_length
       THEN IF max_prefix_length \in full.inner
            THEN [result |-> "panic", len |-> 0]
            ELSE IF newlines # {}
            THEN [result |-> "Ok",
                  len |-> CHOOSE p \in newlines : \A q \in newlines : q <= p]
            ELSE [result |-> "Ok", len |-> max_prefix_length]
       ELSE [result |-> "Ok", len |-> full.len]

\* build_prefix of the default builder with max_prefix_length set
build_prefix(context, max_prefix_length, build) ==
    LET deps == DependenciesPart(context.dependencies, build)
        parts == Parts(context, build)
        cut == Truncate(parts, max_prefix_length)
    IN IF context.dependencies # <<>> /\ deps.truncated /\ deps.more.panic
       THEN [result |-> "panic", len |-> 0, full_len |-> 0, line_ends |-> {},
             deps |-> deps]
       ELSE [result |-> cut.result, len |-> cut.len,
             full_len |-> JoinLines(parts).len,
             line_ends |-> NewlineOffsets(parts) \cup {JoinLines(parts).len},
             deps |-> deps]

BuildPrefixCall(context, max_prefix_length, build) ==
    /\ prefix.pc = "idle"
    /\ prefix' = [pc |-> "done", context |-> context,
                  max_prefix_length |-> max_prefix_length,
                  out |-> build_prefix(context, max_prefix_length, build)]
    /\ UNCHANGED nonPrefixVars

NextPrefix ==
    \E context \in OfferedWhen(prefix.pc = "idle", ChunkContexts),
       max_prefix_length \in 0..MaxPrefixLength,
       build \in {"debug", "release"} :
        BuildPrefixCall(context, max_prefix_length, build)

SpecPrefix == Init /\ [][NextPrefix]_vars

\* C25: the prefix returned is never longer than max_prefix_length, and a
\* truncated prefix ends at the end of a line of the untruncated prefix (or
\* is empty), so it has no partially cut line.
C25_TruncatedAtLine ==
    (prefix.pc = "done" /\ prefix.out.result = "Ok") =>
        /\ prefix.out.len <= prefix.max_prefix_length
        /\ prefix.out.full_len > prefix.max_prefix_length
              => prefix.out.len \in prefix.out.line_ends \cup {0}

\* C26: when the comma-joined dependency list is longer than 100 characters
\* the prefix lists at most the first 5 dependencies and the overflow count
\* is the number of dependencies not listed, computed without underflow.
C26_OverflowCount ==
    (prefix.pc = "done"
     /\ JoinLen(prefix.context.dependencies) > DepsFlatLimit) =>
        /\ prefix.out.deps.truncated
        /\ prefix.out.deps.listed <= DepsShown
        /\ ~prefix.out.deps.more.panic
        /\ ~prefix.out.deps.more.wrapped
        /\ prefix.out.deps.more.value >= 0
        /\ prefix.out.deps.more.value
              = Len(prefix.context.dependencies) - prefix.out.deps.listed

(***************************************************************************)
(* ast_engine/scope_tree.rs: ScopeTree                                      *)
(* A scope path "root.A.f" is the sequence <<"root", "A", "f">>.             *)
(* scope_nodes is a HashMap: `order` is the order in which values() visits   *)
(* its entries, which the std hasher leaves unspecified and which is fixed   *)
(* for one tree.                                                             *)
(***************************************************************************)
\* stands for usize::MAX: larger than every line number
usize_MAX == 1000000

AstNodes ==
    {n \in [name : {"a", "b"}, creates_scope : BOOLEAN,
            start_line : 1..MaxLines, end_line : 1..MaxLines] :
        n.start_line <= n.end_line}

\* nodes of a file in line order, each one inside or after the ones before
NodeLists ==
    {ns \in SeqsUpTo(AstNodes, MaxScopeNodes) :
        \A i, j \in 1..Len(ns) :
            i < j => /\ ns[i].start_line <= ns[j].start_line
                     /\ ns[j].start_line <= ns[i].end_line
                           => ns[j].end_line <= ns[i].end_line}

ScopeNode(name, start_line, end_line, full_path) ==
    [name |-> name, start_line |-> start_line, end_line |-> end_line,
     children |-> <<>>, full_path |-> full_path]

\* HashMap::insert
Insert(map, key, value) ==
    [k \in DOMAIN map \cup {key} |-> IF k = key THEN value ELSE map[k]]

\* "Pop scopes that have ended"
RECURSIVE PopEnded(_, _)
PopEnded(scope_stack, node) ==
    IF Len(scope_stack) > 1
       /\ node.start_line > scope_stack[Len(scope_stack)].end_line
    THEN PopEnded(SubSeq(scope_stack, 1, Len(scope_stack) - 1), node)
    ELSE scope_stack

\* build_from_nodes: the loop over nodes; st = [scope_nodes, scope_stack]
RECURSIVE BuildLoop(_, _)
BuildLoop(nodes, st) ==
    IF nodes = <<>> THEN st
    ELSE
      LET node == Head(nodes)
          scope_stack == PopEnded(st.scope_stack, node)
          parent_path == scope_stack[Len(scope_stack)].path
          full_path == Append(parent_path, node.name)
          with_child ==
              IF parent_path \in DOMAIN st.scope_nodes
              THEN [st.scope_nodes EXCEPT
                       ![parent_path].children = Append(@, node.name)]
              ELSE st.scope_nodes
      IN BuildLoop(Tail(nodes),
             IF node.creates_scope
             THEN [scope_nodes |->
                       Insert(with_child, full_path,
                              ScopeNode(node.name, node.start_line,
                                        node.end_line, full_path)),
                   scope_stack |->
                       Append(scope_stack,
                              [path |-> full_path, end_line |-> node.end_line])]
             ELSE [scope_nodes |-> st.scope_nodes, scope_stack |-> scope_stack])

\* ScopeTree::from_nodes -> scope_nodes
from_nodes(nodes) ==
    BuildLoop(nodes,
        [scope_nodes |->
             Insert(<<>>, <<"root">>, ScopeNode("root", 1, usize_MAX, <<"root">>)),
         scope_stack |-> <<[path |-> <<"root">>, end_line |-> usize_MAX]>>]
    ).scope_nodes

\* the orders in which values() can visit the entries of a map
IterationOrders(map) ==
    {o \in [1..Cardinality(DOMAIN map) -> DOMAIN map] :
        \A i, j \in 1..Cardinality(DOMAIN map) : o[i] = o[j] => i = j}

\* get_scope_at_line: the loop over scope_nodes.values()
\* st = [best_match, best_span]
RECURSIVE LookupLoop(_, _, _, _)
LookupLoop(scope_nodes, order, line, st) ==
    IF order = <<>> THEN st
    ELSE
      LET node == scope_nodes[Head(order)]
          span == node.end_line - node.start_line
      IN LookupLoop(scope_nodes, Tail(order), line,
             IF line >= node.start_line /\ line <= node.end_line
                /\ span < st.best_span
             THEN [best_match |-> <<node.full_path>>, best_span |-> span]
             ELSE st)

\* Option<&ScopeNode> as <<>> or <<full_path>>
get_scope_at_line(scope_nodes, order, line) ==
    LookupLoop(scope_nodes, order, line,
               [best_match |-> <<>>, best_span |-> usize_MAX]).best_match

FromNodesCall(nodes, order) ==
    /\ scope.pc = "idle"
    /\ scope' = [pc |-> "built", nodes |-> nodes,
                 scope_nodes |-> from_nodes(nodes), order |-> order,
                 answers |-> [line \in 0..MaxLines |-> {}]]
    /\ UNCHANGED nonScopeVars

GetScopeAtLineCall(line) ==
    /\ scope.pc = "built"
    /\ scope' = [scope EXCEPT !.answers[line] =
                    @ \cup {get_scope_at_line(scope.scope_nodes, scope.order, line)}]
    /\ UNCHANGED nonScopeVars

NextScope ==
    \/ \E nodes \in OfferedWhen(scope.pc = "idle", NodeLists) :
          \E order \in IterationOrders(from_nodes(nodes)) :
            FromNodesCall(nodes, order)
    \/ \E line \in 0..MaxLines : GetScopeAtLineCall(line)

SpecScope == Init /\ [][NextScope]_vars

\* the scopes of the tree whose line range contains `line`
Containing(line) ==
    {p \in DOMAIN scope.scope_nodes :
        /\ line >= scope.scope_nodes[p].start_line
        /\ line <= scope.scope_nodes[p].end_line}

Span(p) == scope.scope_nodes[p].end_line - scope.scope_nodes[p].start_line

\* q is a proper ancestor of p in the tree
Ancestor(q, p) == Len(q) < Len(p) /\ SubSeq(p, 1, Len(q)) = q

\* C27: get_scope_at_line(L) returns a scope containing L of minimum span
\* among the scopes containing L, every other scope containing L is an
\* ancestor of it, and every call for L gives the same answer.
C27_InnermostScope ==
    scope.pc = "built" =>
        \A line \in 0..MaxLines :
            /\ Cardinality(scope.answers[line]) <= 1
            /\ \A ans \in scope.answers[line] :
                  IF Containing(line) = {} THEN ans = <<>>
                  ELSE /\ ans # <<>>
                       /\ ans[1] \in Containing(line)
                       /\ \A q \in Containing(line) : Span(ans[1]) <= Span(q)
                       /\ \A q \in Containing(line) \ {ans[1]} :
                              Ancestor(q, ans[1])

(***************************************************************************)
(* messaging/circuit_breaker.rs: CircuitBreaker                             *)
(* Each caller runs allow_request, record_success or record_failure one      *)
(* lock operation or atomic operation at a time.  `state.read()` guards are  *)
(* temporaries (taken and dropped in one statement); the `next_retry` guard  *)
(* of allow_request and the `state` guard of transition_to are held across   *)
(* statements.  Time is `now`, in units of half the recovery timeout.        *)
(***************************************************************************)
CircuitOps == {"allow_request", "record_success", "record_failure"}

\* the caller returns from the public function it was in
CbReturn(c, t) ==
    [c EXCEPT !.caller[t] = CallerIdle(c.caller[t].calls + 1)]

\* a caller enters one of the public functions; record_success and
\* record_failure begin with a fetch_add on their counter
CbCall(t, op) ==
    /\ cb.caller[t].pc = "idle"
    /\ cb.caller[t].calls < MaxCalls
    /\ cb' = [cb EXCEPT
           !.failures = IF op = "record_failure" THEN @ + 1 ELSE @,
           !.caller[t] = [pc |-> "read_state", op |-> op,
                          calls |-> cb.caller[t].calls,
                          failures |-> IF op = "record_failure"
                                       THEN cb.failures + 1 ELSE 0,
                          new_state |-> "none"]]
    /\ UNCHANGED nonCbVars

\* let state = *self.state.read().unwrap(); and the branch taken on it
CbReadState(t) ==
    /\ cb.caller[t].pc = "read_state"
    /\ cb.state_writer = 0
    /\ LET op == cb.caller[t].op
           goto(pc) == [cb EXCEPT !.caller[t].pc = pc]
           transition(new_state) ==
               [cb EXCEPT !.caller[t].pc = "transition_to",
                          !.caller[t].new_state = new_state]
       IN cb' =
           CASE op = "allow_request" /\ cb.state = "Closed" -> CbReturn(cb, t)
             [] op = "allow_request" /\ cb.state = "Open" -> goto("next_retry")
             [] op = "allow_request" /\ cb.state = "HalfOpen" -> goto("load_calls")
             [] op = "record_success" /\ cb.state = "HalfOpen" -> goto("fetch_add")
             [] op = "record_success" /\ cb.state # "HalfOpen" -> CbReturn(cb, t)
             [] op = "record_failure" /\ cb.state = "HalfOpen" -> transition("Open")
             [] op = "record_failure" /\ cb.state = "Closed"
                  /\ cb.caller[t].failures >= FailureThreshold -> transition("Open")
             [] OTHER -> CbReturn(cb, t)
    /\ UNCHANGED nonCbVars

\* allow_request, Open arm: let next_retry = self.next_retry_time.read();
\* the guard is kept while transition_to(HalfOpen) runs
CbNextRetry(t) ==
    /\ cb.caller[t].pc = "next_retry"
    /\ cb' = IF cb.next_retry_time # <<>> /\ now >= cb.next_retry_time[1]
             THEN [cb EXCEPT !.retry_readers = @ \cup {t},
                             !.caller[t].pc = "transition_to",
                             !.caller[t].new_state = "HalfOpen"]
             ELSE CbReturn(cb, t)
    /\ UNCHANGED nonCbVars

\* allow_request, HalfOpen arm: half_open_calls.load() < half_open_max_calls
CbLoadCalls(t) ==
    /\ cb.caller[t].pc = "load_calls"
    /\ cb' = [CbReturn(cb, t) EXCEPT
                 !.admitted = IF cb.half_open_calls < HalfOpenMaxCalls
                                 /\ cb.state = "HalfOpen"
                              THEN @ + 1 ELSE @]
    /\ UNCHANGED nonCbVars

\* record_success, HalfOpen: calls = half_open_calls.fetch_add(1) + 1
CbFetchAdd(t) ==
    /\ cb.caller[t].pc = "fetch_add"
    /\ cb' = IF cb.half_open_calls + 1 >= HalfOpenMaxCalls
             THEN [cb EXCEPT !.half_open_calls = @ + 1,
                             !.caller[t].pc = "transition_to",
                             !.caller[t].new_state = "Closed"]
             ELSE [CbReturn(cb, t) EXCEPT !.half_open_calls = @ + 1]
    /\ UNCHANGED nonCbVars

\* transition_to: let mut state = self.state.write(); *state = new_state
CbTransitionTo(t) ==
    /\ cb.caller[t].pc = "transition_to"
    /\ cb.state_writer = 0
    /\ cb' = [cb EXCEPT !.state_writer = t,
                        !.state = cb.caller[t].new_state,
                        !.admitted = 0,
                        !.caller[t].pc = cb.caller[t].new_state]
    /\ UNCHANGED nonCbVars

\* calculate_backoff: the delays the jitter can give, exponential backoff on
calculate_backoff(retry_count) ==
    LET base_delay == RecoveryTimeout * (2 ^ retry_count)
        capped_delay == IF base_delay < MaxBackoff THEN base_delay ELSE MaxBackoff
    IN IF capped_delay = 0 THEN {0}
       ELSE (capped_delay \div 2)..(capped_delay - 1)

\* transition_to, Open arm: *self.next_retry_time.write() = Some(now + backoff),
\* retry_count += 1, then the state guard is dropped and record_failure returns
CbOpen(t, backoff) ==
    /\ cb.caller[t].pc = "Open"
    /\ cb.retry_readers = {}
    /\ backoff \in calculate_backoff(cb.retry_count)
    /\ cb' = [CbReturn(cb, t) EXCEPT
                 !.next_retry_time = <<now + backoff>>,
                 !.retry_count = @ + 1,
                 !.state_writer = 0]
    /\ UNCHANGED nonCbVars

\* transition_to, HalfOpen arm: half_open_calls = 0; the state guard is
\* dropped, allow_request returns true and drops its next_retry guard
CbHalfOpen(t) ==
    /\ cb.caller[t].pc = "HalfOpen"
    /\ cb' = [CbReturn(cb, t) EXCEPT
                 !.half_open_calls = 0,
                 !.state_writer = 0,
                 !.retry_readers = @ \ {t}]
    /\ UNCHANGED nonCbVars

\* transition_to, Closed arm: retry_count = 0, failures = 0; the state guard
\* is dropped and record_success returns
CbClosed(t) ==
    /\ cb.caller[t].pc = "Closed"
    /\ cb' = [CbReturn(cb, t) EXCEPT
                 !.retry_count = 0, !.failures = 0, !.state_writer = 0]
    /\ UNCHANGED nonCbVars

NextCb ==
    \/ \E t \in Callers, op \in CircuitOps : CbCall(t, op)
    \/ \E t \in Callers : CbReadState(t)
    \/ \E t \in Callers : CbNextRetry(t)
    \/ \E t \in Callers : CbLoadCalls(t)
    \/ \E t \in Callers : CbFetchAdd(t)
    \/ \E t \in Callers : CbTransitionTo(t)
    \/ \E t \in Callers, backoff \in 0..MaxBackoff : CbOpen(t, backoff)
    \/ \E t \in Callers : CbHalfOpen(t)
    \/ \E t \in Callers : CbClosed(t)
    \/ Tick

SpecCb == Init /\ [][NextCb]_vars

\* caller t cannot go on until caller u releases a lock
WaitsFor(t, u) ==
    \/ /\ cb.caller[t].pc \in {"read_state", "transition_to"}
       /\ cb.state_writer = u
    \/ /\ cb.caller[t].pc = "Open"
       /\ u \in cb.retry_readers

\* C29: callers of allow_request, record_success and record_failure never
\* end up waiting for each other's lock (the state lock and the
\* next_retry_time lock), so every call returns.
C29_NoDeadlock ==
    \A t, u \in Callers : ~(t # u /\ WaitsFor(t, u) /\ WaitsFor(u, t))

\* C30: in one half-open period (until the circuit closes or re-opens) the
\* HalfOpen arm of allow_request admits at most half_open_max_calls requests.
C30_HalfOpenBound ==
    cb.admitted <= HalfOpenMaxCalls

====
